---------------------------- MODULE Spec2Model ----------------------------
(***************************************************************************)
(* Iteration engine of the object runtime: zip, map, the reverse-sequence  *)
(* iterator and the ordered-mapping view iterators, each as a state        *)
(* machine translated from its Rust source under src/vm/src/builtins.      *)
(*                                                                         *)
(* Each component has a specification of its own (SpecZip, SpecMap,        *)
(* SpecRev, SpecView, ...): Init of that specification is the state right  *)
(* after the object's constructor ran on inputs drawn from bounded sets,   *)
(* and the other objects stay in their idle state.                         *)
(*                                                                         *)
(* Indices are 0-based wherever the source's are (`index`, `position`);    *)
(* a TLA+ sequence s holds the source's s[i] at s[i + 1].                  *)
(***************************************************************************)
EXTENDS Integers, Sequences, FiniteSets, TLC

\* ------------------------------------------------------------- bounds
\* Longest source iterable handed to zip / map.
MaxLen == 2
\* Most sub-iterators handed to zip / map.
MaxIters == 3
\* Most next calls made on a map built over no iterable at all (such a map is
\* never exhausted by its sub-iterators).
MaxCalls == 3
\* Longest subject of a reverse-sequence iterator.
MaxSeq == 3
\* Most entry slots (live or deleted) of the backing dict.
MaxEntries == 3
\* Width in bits of one digit of a BigInt, scaled down from the machine word.
WordBits == 2
\* Most digits of the start value handed to enumerate.
MaxDigits == 2
\* Most bound-methods created from the descriptor.
MaxWrappers == 2
\* Most invocations of the descriptor's dispatch function.
MaxDispatch == 2
\* Most types in the MRO of an object handed to the mapping protocol.
MaxMro == 3
MaxCmpLen == 2
\* Largest repetition count handed to seq_mul.
MaxReps == 3

VARIABLES
    \* ---- PyZip (zip.rs:14-17)
    zipIters,     \* iterators: Vec<PyIter>, each a list iterator [len, pos]
    zipStrict,    \* strict: AtomicCell<bool>
    zipLast,      \* the last call on the zip object and what it returned
    zipOut,       \* the tuples yielded so far, in order
    zipModes,     \* the values of the strict flag next has run under so far
    zipRaised,    \* whether a sub-iterator has raised during some next
    zipArg,       \* the strict argument the zip object was constructed with
    \* ---- PyMap (map.rs:15-18)
    mapIters,     \* iterators: Vec<PyObjectRef>, each a list iterator [len, pos]
    mapLast,      \* the last next call on the map object and what it returned
    mapOut,       \* the results yielded so far, in order
    mapStopped,   \* whether some next has returned StopIteration
    mapBehs,      \* how the mapper has answered so far, when invoked
    mapRaised,    \* whether a sub-iterator has raised during some next
    \* ---- PyReverseSequenceIterator (enumerate.rs:71-75)
    revObj,       \* obj: the subject, an object with __len__ and __getitem__
                  \* holding these items
    revPos,       \* position: AtomicCell<isize>
    revStatus,    \* status: AtomicCell<IterStatus>, "Active" or "Exhausted"
    revLast,      \* the last call on the iterator and what it returned
    revOut,       \* the items yielded, in order, while the subject has been
                  \* left unchanged (revClean)
    revClean,     \* no mutation of the subject, no setstate and no exception
                  \* out of __getitem__ other than IndexError so far
    revStopped,   \* whether some next has returned StopIteration
    revMutated,   \* whether the subject has been mutated since the iterator
                  \* was created
    revIndexStop, \* whether some next has met IndexError out of __getitem__
    \* ---- ordered-mapping view iterators (odict.rs:160-282)
    dictEntries,  \* the backing dict's entries, in insertion order; a deleted
                  \* entry leaves an empty slot
    viewIters,    \* the view iterators created so far, by id: kind of view,
                  \* direction, size (snapshot), internal.position,
                  \* internal.status
    viewLast,     \* the last call on a view iterator and what it returned
    viewHist,     \* by iterator id: whether the dict was changed since it was
                  \* created, what it has yielded (kept while the dict is
                  \* unchanged), and whether some next has returned
                  \* StopIteration, whether some next has raised RuntimeError
    \* ---- PyEnumerate (enumerate.rs:22-25)
    enumCounter,  \* counter: PyRwLock<BigInt>
    enumIter,     \* iterator: the sub-iterator, a list iterator [len, pos]
    enumStart,    \* the counter the constructor stored
    enumOk,       \* the number of next calls that have returned a pair
    enumLast,     \* the last next call on the enumerate object and its result
    \* ---- PyWrapperDescriptor, PyMethodWrapper (wrapperdescr.rs:17-22,
    \* methodwrapper.rs:16-19)
    descr,        \* the descriptor: name, class (owner type)
    wrappers,     \* the bound-methods created so far, in order of creation:
                  \* descr, zelf
    dispatched,   \* how many times the dispatch function (wrapper) has run
    descrLast,    \* the last operation on the descriptor or on a bound-method
    \* ---- mapping protocol (mapping.rs:14-19)
    protoMro,     \* the MRO of the object's type, the type itself first: per
                  \* type its name and its slots.as_mapping
    protoLast,    \* the last protocol operation on the object and its result
    \* ---- ordered-mapping views (odict.rs:125-127): a view holds the dict
    \* and nothing else
    opLast,       \* the last operation on a view since the dict last changed,
                  \* and its result
    \* ---- sequence comparison (sequence.rs)
    seqLast,      \* the last comparison of two sequences and its result
    \* ---- threads driving view iterator 1 (odict.rs:190-216)
    concPc,       \* by thread: where it is in next
    concLocal,    \* by thread: what it found under the lock
    concMutex,    \* the thread holding the lock of `internal`, or NoThread
    concOut,      \* the entries yielded so far: thread and slot, in order
    \* ---- threads driving the enumerate object (enumerate.rs:59-67)
    encPc,        \* by thread: where it is in next
    encItem,      \* by thread: next_obj, the item it pulled
    encLast,      \* the last next call that returned, and its result
    \* ---- SeqMul (sequence.rs:70-74)
    mulSeq,       \* seq: &dyn SimpleSeq
    mulReps,      \* repetitions: usize
    mulIter,      \* iter: Option<DynPyIter>, the items of seq consumed by it
    mulArg,       \* the repetitions argument seq_mul was called with
    mulOut,       \* the elements yielded so far, in order
    mulLast       \* the last call on the SeqMul and its result

zipVars == <<zipIters, zipStrict, zipLast, zipOut, zipModes, zipRaised, zipArg>>

mapVars == <<mapIters, mapLast, mapOut, mapStopped, mapBehs, mapRaised>>

revVars ==
    <<revObj, revPos, revStatus, revLast, revOut, revClean, revStopped, revMutated,
      revIndexStop>>

viewVars == <<dictEntries, viewIters, viewLast, viewHist>>

enumVars == <<enumCounter, enumIter, enumStart, enumOk, enumLast>>

descrVars == <<descr, wrappers, dispatched, descrLast>>

protoVars == <<protoMro, protoLast>>

opVars == <<opLast>>

seqVars == <<seqLast>>

concVars == <<concPc, concLocal, concMutex, concOut>>

encVars == <<encPc, encItem, encLast>>

mulVars == <<mulSeq, mulReps, mulIter, mulArg, mulOut, mulLast>>

vars ==
    <<zipVars, mapVars, revVars, viewVars, enumVars, descrVars, protoVars, opVars,
      seqVars, concVars, encVars, mulVars>>

\* ------------------------------------------------------- results
\* What a call hands back: PyIterReturn::Return(val), StopIteration, or an
\* exception of class `tag` with message `msg`.
Return(v)        == [tag |-> "Return", val |-> <<v>>, msg |-> ""]
StopIteration    == [tag |-> "StopIteration", val |-> <<>>, msg |-> ""]
Raise(cls, text) == [tag |-> cls, val |-> <<>>, msg |-> text]
ReturnNone       == [tag |-> "None", val |-> <<>>, msg |-> ""]


\* ------------------------------------------------- sub-iterators
\* A sub-iterator is an iterator over a finite list of `len` items, `pos` of
\* them consumed.  The k-th item (0-based) of the sub-iterator at argument
\* position i (0-based) is the pair <<i, k>>.
ListIter(n) == [len |-> n, pos |-> 0]

Item(i, k) == <<i, k>>

\* iterator.next(vm) on the sub-iterator `it` at argument position i: the next
\* item and the advanced iterator, or StopIteration (and then again, for ever).
SubNext(it, i) ==
    IF it.pos < it.len
    THEN [res |-> Return(Item(i, it.pos)), it |-> [it EXCEPT !.pos = @ + 1]]
    ELSE [res |-> StopIteration, it |-> it]

\* The error a sub-iterator's own next may raise (propagated by `?`).
SubError == Raise("Error", "sub-iterator raised")

\* The choices of `raiser`, the 0-based argument position of the sub-iterator
\* whose next raises in a call when it is reached (-1: none does).  Only a
\* sub-iterator that is not yet exhausted raises: the exhaustion of a list
\* iterator is final.
Raisers(its) == {-1} \cup {i \in 0..(Len(its) - 1) : its[i + 1].pos < its[i + 1].len}

\* ------------------------------------------------------------ PyZip
\* Mutant of ZipShorterMsg: the plural test off by one (index == 0).
ZipShorterMsg_PluralOff(index) ==
    LET plural == IF index = 0 THEN " " ELSE "s 1-"
    IN  "zip() argument " \o ToString(index + 1) \o " is shorter than argument"
            \o plural \o ToString(index)

\* format!("zip() argument {} is shorter than argument{}{}", index + 1, plural, index)
ZipShorterMsg(index) ==
    LET plural == IF index = 1 THEN " " ELSE "s 1-"
    IN  "zip() argument " \o ToString(index + 1) \o " is shorter than argument"
            \o plural \o ToString(index)

\* format!("zip() argument {} is longer than argument{}{}", index + 1, plural, index)
ZipLongerMsg(index) ==
    LET plural == IF index = 1 THEN " " ELSE "s 1-"
    IN  "zip() argument " \o ToString(index + 1) \o " is longer than argument"
            \o plural \o ToString(index)

\* Mutant of ZipProbe: the arms of the match swapped (an exhausted
\* iterators[1] reported as the longer one).
ZipProbe_ArmsSwapped(its, raiser) ==
    IF Len(its) < 2
    THEN [its |-> its, res |-> StopIteration]
    ELSE IF raiser = 1
    THEN [its |-> its, res |-> Raise("ValueError", "sub-iterator raised")]
    ELSE IF its[2].pos < its[2].len
    THEN [its |-> [its EXCEPT ![2] = [@ EXCEPT !.pos = @ + 1]],
          res |-> StopIteration]
    ELSE [its |-> its, res |-> Raise("ValueError", ZipLongerMsg(0))]

\* The inner loop of next, `for (index, iterator) in zelf.iterators[1..].iter()
\* .enumerate()`, entered when iterators[0] is exhausted under strict: `index`
\* counts from 0 at iterators[1].  Every arm of its body returns, so the loop
\* body runs at most once, on iterators[1]; with a single iterator the loop is
\* empty and next falls through to `return Ok(StopIteration(v))`.
\* `raiser` is the 0-based argument position of the sub-iterator whose next
\* raises in this call (-1: none does).
ZipProbe(its, raiser) ==
    IF Len(its) < 2
    THEN [its |-> its, res |-> StopIteration]
    ELSE LET index == 0
             r == SubNext(its[2], 1)
         IN  IF raiser = 1
             THEN [its |-> its, res |-> SubError]
             ELSE IF r.res.tag = "Return"
             THEN [its |-> [its EXCEPT ![2] = r.it],
                   res |-> Raise("ValueError", ZipLongerMsg(index))]
             ELSE [its |-> its, res |-> StopIteration]

\* The outer loop of next from 0-based `index` on, `objs` being next_objs so far.
RECURSIVE ZipLoop(_, _, _, _, _)
ZipLoop(its, strict, raiser, index, objs) ==
    IF index = Len(its)
    THEN [its |-> its, res |-> Return(objs)]
    ELSE LET r == SubNext(its[index + 1], index)
         IN  IF raiser = index
             THEN [its |-> its, res |-> SubError]
             ELSE IF r.res.tag = "Return"
             THEN ZipLoop([its EXCEPT ![index + 1] = r.it], strict, raiser,
                          index + 1, Append(objs, r.res.val[1]))
             ELSE IF strict
             THEN IF index > 0
                  THEN [its |-> its,
                        res |-> Raise("ValueError", ZipShorterMsg(index))]
                  ELSE ZipProbe(its, raiser)
             ELSE [its |-> its, res |-> StopIteration]

\* Mutant of PyZip_next: the is_empty() early return left out.
PyZip_next_NoEmptyCheck(its, strict, raiser) ==
    ZipLoop(its, strict, raiser, 0, <<>>)

\* SlotIterator::next for PyZip.
PyZip_next(its, strict, raiser) ==
    IF Len(its) = 0
    THEN [its |-> its, res |-> StopIteration]
    ELSE ZipLoop(its, strict, raiser, 0, <<>>)

\* SlotConstructor::py_new: strict = args.strict.unwrap_or(false).
\* `strictArg` is "Missing", or the boolean given ("True", "False").
PyZip_py_new(lens, strictArg) ==
    [iterators |-> [i \in 1..Len(lens) |-> ListIter(lens[i])],
     strict    |-> IF strictArg = "Missing" THEN FALSE ELSE strictArg = "True"]

\* IntoPyBool::try_from_object(vm, state): the truth value of any object, or an
\* error when the object's __bool__ raises.
StateArgs == {"True", "False", "Truthy", "Falsy", "BadBool"}

IntoPyBool(state) ==
    CASE state \in {"True", "Truthy"} -> [ok |-> TRUE, b |-> TRUE]
      [] state \in {"False", "Falsy"} -> [ok |-> TRUE, b |-> FALSE]
      [] OTHER                        -> [ok |-> FALSE, b |-> FALSE]

\* PyZip::setstate: stores the flag when the conversion succeeds, Ok(()) always.
PyZip_setstate(strict, state) ==
    LET obj == IntoPyBool(state)
    IN  IF obj.ok THEN obj.b ELSE strict

\* Mutant of PyZip_reduce: the flag is left out.
PyZip_reduce_NoFlag(iterators, strict) == <<"zip", iterators>>

\* PyZip::reduce: (cls, iterators) and, when strict is set, True as a third
\* element.
PyZip_reduce(iterators, strict) ==
    IF strict THEN <<"zip", iterators, TRUE>> ELSE <<"zip", iterators>>

StrictArgs == {"Missing", "True", "False"}

\* No call made on the zip object yet.
ZipNoCall ==
    [op |-> "none", strict |-> FALSE, pre |-> <<>>, raiser |-> -1, res |-> ReturnNone]

LenSeqs == UNION {[1..n -> 0..MaxLen] : n \in 0..MaxIters}

ZipIdle ==
    /\ zipIters = <<>>
    /\ zipStrict = FALSE
    /\ zipLast = ZipNoCall
    /\ zipOut = <<>>
    /\ zipModes = {}
    /\ zipRaised = FALSE
    /\ zipArg = "Missing"

ZipInit ==
    \E lens \in LenSeqs, strictArg \in StrictArgs :
        LET z == PyZip_py_new(lens, strictArg)
        IN  /\ zipIters = z.iterators
            /\ zipStrict = z.strict
            /\ zipLast = ZipNoCall
            /\ zipOut = <<>>
            /\ zipModes = {}
            /\ zipRaised = FALSE
            /\ zipArg = strictArg

ZipNext ==
    \E raiser \in Raisers(zipIters) :
        LET r == PyZip_next(zipIters, zipStrict, raiser)
        IN  /\ zipIters' = r.its
            /\ zipLast' = [op |-> "next", strict |-> zipStrict, pre |-> zipIters,
                           raiser |-> raiser, res |-> r.res]
            /\ zipOut' = IF r.res.tag = "Return"
                         THEN Append(zipOut, r.res.val[1]) ELSE zipOut
            /\ zipModes' = zipModes \cup {zipStrict}
            /\ zipRaised' = (zipRaised \/ r.res.tag = "Error")
            /\ UNCHANGED <<zipStrict, zipArg, mapVars, revVars, viewVars, enumVars, descrVars, protoVars, opVars, seqVars, concVars, encVars, mulVars>>

ZipSetstate ==
    \E state \in StateArgs :
        /\ zipStrict' = PyZip_setstate(zipStrict, state)
        /\ zipLast' = [op |-> "setstate", strict |-> zipStrict, pre |-> zipIters,
                       raiser |-> -1, res |-> ReturnNone]
        /\ UNCHANGED <<zipIters, zipOut, zipModes, zipRaised, zipArg, mapVars, revVars, viewVars, enumVars, descrVars, protoVars, opVars, seqVars, concVars, encVars, mulVars>>

\* zip.__reduce__()
ZipReduce ==
    /\ zipLast' = [op |-> "reduce", strict |-> zipStrict, pre |-> zipIters,
                   raiser |-> -1, res |-> Return(PyZip_reduce(zipIters, zipStrict))]
    /\ UNCHANGED <<zipIters, zipStrict, zipOut, zipModes, zipRaised, zipArg, mapVars, revVars, viewVars, enumVars, descrVars, protoVars, opVars, seqVars, concVars, encVars, mulVars>>

\* ------------------------------------------------------------ PyMap
\* vm.invoke(&zelf.mapper, next_objs): the mapper is any callable; invoked on
\* the collected items it returns a value, raises StopIteration, or raises
\* another error.
MapperBehaviours == {"value", "stop", "error"}

\* The value the mapper returns for the positional arguments `objs`.
Apply(objs) == [f |-> objs]

invoke(beh, objs) ==
    CASE beh = "value" -> Return(Apply(objs))
      [] beh = "stop"  -> StopIteration
      [] OTHER         -> Raise("Error", "mapper raised")

\* Mutant of MapCollect: every sub-iterator is asked for an item before the
\* first Err is looked for.
RECURSIVE MapCollect_AdvanceAll(_, _, _, _)
MapCollect_AdvanceAll(its, raiser, index, objs) ==
    LET rest == [i \in 1..Len(its) |->
                    IF i > index + 1 /\ its[i].pos < its[i].len
                    THEN [its[i] EXCEPT !.pos = @ + 1] ELSE its[i]]
    IN  IF index = Len(its)
        THEN [its |-> its, ok |-> TRUE, objs |-> objs, err |-> ReturnNone]
        ELSE LET r == SubNext(its[index + 1], index)
             IN  IF raiser = index
                 THEN [its |-> rest, ok |-> FALSE, objs |-> objs, err |-> SubError]
                 ELSE IF r.res.tag = "Return"
                 THEN MapCollect_AdvanceAll([its EXCEPT ![index + 1] = r.it],
                                            raiser, index + 1,
                                            Append(objs, r.res.val[1]))
                 ELSE [its |-> rest, ok |-> FALSE, objs |-> objs,
                       err |-> StopIteration]

\* `.map(|iterator| iterator::call_next(vm, iterator)).collect::<Result<Vec<_>,
\* _>>()`: the items of all sub-iterators in argument order, stopping at the
\* first sub-iterator whose call_next gives Err (StopIteration or an error).
RECURSIVE MapCollect(_, _, _, _)
MapCollect(its, raiser, index, objs) ==
    IF index = Len(its)
    THEN [its |-> its, ok |-> TRUE, objs |-> objs, err |-> ReturnNone]
    ELSE LET r == SubNext(its[index + 1], index)
         IN  IF raiser = index
             THEN [its |-> its, ok |-> FALSE, objs |-> objs, err |-> SubError]
             ELSE IF r.res.tag = "Return"
             THEN MapCollect([its EXCEPT ![index + 1] = r.it], raiser,
                             index + 1, Append(objs, r.res.val[1]))
             ELSE [its |-> its, ok |-> FALSE, objs |-> objs, err |-> StopIteration]

\* Mutant of PyMap_next: the mapper invoked on the items collected so far even
\* when the collection stopped at an exhausted sub-iterator.
PyMap_next_NoShortCircuit(its, raiser, beh) ==
    LET c == MapCollect(its, raiser, 0, <<>>)
    IN  IF c.ok \/ c.err.tag = "StopIteration"
        THEN [its |-> c.its, res |-> invoke(beh, c.objs), invoked |-> TRUE]
        ELSE [its |-> c.its, res |-> c.err, invoked |-> FALSE]

\* PyIter::next for PyMap: `?` returns the first Err of the collection without
\* invoking the mapper; otherwise the mapper's own result is the result.
PyMap_next(its, raiser, beh) ==
    LET c == MapCollect(its, raiser, 0, <<>>)
    IN  IF c.ok
        THEN [its |-> c.its, res |-> invoke(beh, c.objs), invoked |-> TRUE]
        ELSE [its |-> c.its, res |-> c.err, invoked |-> FALSE]

\* iterator::length_hint(vm, cur): Some(items left) for a sub-iterator that
\* reports a hint, None for one that has none.
NoHint == [some |-> FALSE, hint |-> 0]

SubLengthHint(it, hasHint) ==
    IF hasHint THEN [some |-> TRUE, hint |-> it.len - it.pos] ELSE NoHint

\* .unwrap_or(0)
unwrap_or_0(opt) == IF opt.some THEN opt.hint ELSE 0

IntMax(a, b) == IF a >= b THEN a ELSE b

\* Mutant of try_fold: the fold keeps the smaller hint, starting from the
\* first one.
RECURSIVE try_fold_Min(_, _, _, _)
try_fold_Min(its, hintless, index, prev) ==
    IF index = Len(its)
    THEN prev
    ELSE LET cur == unwrap_or_0(SubLengthHint(its[index + 1], index \notin hintless))
             min == IF index = 0 THEN cur ELSE IF prev <= cur THEN prev ELSE cur
         IN  try_fold_Min(its, hintless, index + 1, min)

\* self.iterators.iter().try_fold(0, |prev, cur| max(prev, hint of cur)), from
\* the sub-iterator at `index` on; `hintless`: the argument positions of the
\* sub-iterators without a hint.
RECURSIVE try_fold(_, _, _, _)
try_fold(its, hintless, index, prev) ==
    IF index = Len(its)
    THEN prev
    ELSE LET cur == unwrap_or_0(SubLengthHint(its[index + 1], index \notin hintless))
             max == IntMax(prev, cur)
         IN  try_fold(its, hintless, index + 1, max)

\* PyMap::length_hint.
PyMap_length_hint(its, hintless) == Return(try_fold(its, hintless, 0, 0))

\* PyMap::tp_new: get_iter on every iterable, at construction.
PyMap_tp_new(lens) == [i \in 1..Len(lens) |-> ListIter(lens[i])]

\* No call made on the map object yet.
MapNoCall ==
    [op |-> "none", pre |-> <<>>, raiser |-> -1, beh |-> "none",
     invoked |-> FALSE, stoppedBefore |-> FALSE, hintless |-> {},
     res |-> ReturnNone]

MapIdle ==
    /\ mapIters = <<>>
    /\ mapLast = MapNoCall
    /\ mapOut = <<>>
    /\ mapStopped = FALSE
    /\ mapBehs = {}
    /\ mapRaised = FALSE

MapInit ==
    \E lens \in LenSeqs :
        /\ mapIters = PyMap_tp_new(lens)
        /\ mapLast = MapNoCall
        /\ mapOut = <<>>
        /\ mapStopped = FALSE
        /\ mapBehs = {}
        /\ mapRaised = FALSE

MapNext ==
    \E raiser \in Raisers(mapIters), beh \in MapperBehaviours :
        LET r == PyMap_next(mapIters, raiser, beh)
        IN  /\ Len(mapIters) = 0 => Len(mapOut) < MaxCalls
            \* the mapper's answer is an input only when the mapper is invoked
            /\ ~r.invoked => beh = "value"
            /\ mapIters' = r.its
            /\ mapLast' = [op |-> "next", pre |-> mapIters, raiser |-> raiser,
                           beh |-> IF r.invoked THEN beh ELSE "none",
                           invoked |-> r.invoked, stoppedBefore |-> mapStopped,
                           hintless |-> {}, res |-> r.res]
            /\ mapOut' = IF r.res.tag = "Return"
                         THEN Append(mapOut, r.res.val[1]) ELSE mapOut
            /\ mapStopped' = (mapStopped \/ r.res.tag = "StopIteration")
            /\ mapBehs' = IF r.invoked THEN mapBehs \cup {beh} ELSE mapBehs
            /\ mapRaised' = (mapRaised \/ (~r.invoked /\ r.res.tag = "Error"))
            /\ UNCHANGED <<zipVars, revVars, viewVars, enumVars, descrVars, protoVars, opVars, seqVars, concVars, encVars, mulVars>>

MapLengthHint ==
    \E hintless \in SUBSET (0..(Len(mapIters) - 1)) :
        /\ mapLast' = [op |-> "length_hint", pre |-> mapIters, raiser |-> -1,
                       beh |-> "none", invoked |-> FALSE,
                       stoppedBefore |-> mapStopped, hintless |-> hintless,
                       res |-> PyMap_length_hint(mapIters, hintless)]
        /\ UNCHANGED <<mapIters, mapOut, mapStopped, mapBehs, mapRaised, zipVars, revVars, viewVars, enumVars, descrVars, protoVars, opVars, seqVars, concVars, encVars, mulVars>>

\* ---------------------------------------- PyReverseSequenceIterator
\* The items a subject may hold.
Items == {"a", "b"}

\* What the subject's __getitem__ does in a call besides indexing its items:
\* nothing ("none"), or raise StopIteration or some other exception.  (It
\* raises IndexError by itself when the index is out of range.)
GetItemFaults == {"none", "StopIteration", "Error"}

\* zelf.obj.get_item(pos, vm) for pos >= 0.
get_item(obj, pos, fault) ==
    CASE fault = "StopIteration" -> StopIteration
      [] fault = "Error"         -> Raise("Error", "__getitem__ raised")
      [] pos < Len(obj)          -> Return(obj[pos + 1])
      [] OTHER                   -> Raise("IndexError", "index out of range")

\* Mutant of PyReverseSequenceIterator_new: the position starts at len.
PyReverseSequenceIterator_new_OffByOne(obj, len) ==
    [position |-> len,
     status   |-> IF len = 0 THEN "Exhausted" ELSE "Active"]

\* PyReverseSequenceIterator::new(obj, len).
PyReverseSequenceIterator_new(obj, len) ==
    [position |-> len - 1,
     status   |-> IF len = 0 THEN "Exhausted" ELSE "Active"]

\* Mutant of PyReverseSequenceIterator_next: IndexError out of __getitem__ is
\* handed to the caller like any other error.
PyReverseSequenceIterator_next_IndexErrorEscapes(obj, position, status, fault) ==
    IF status = "Exhausted"
    THEN [position |-> position, status |-> status, accessed |-> FALSE,
          res |-> StopIteration]
    ELSE LET pos == position
             ret == get_item(obj, pos, fault)
         IN  IF pos >= 0
             THEN [position |-> position - 1, status |-> status,
                   accessed |-> TRUE, res |-> ret]
             ELSE [position |-> position - 1, status |-> "Exhausted",
                   accessed |-> FALSE, res |-> StopIteration]

\* Mutant of PyReverseSequenceIterator_next: any error out of __getitem__
\* exhausts the iterator before it is handed to the caller.
PyReverseSequenceIterator_next_ErrorExhausts(obj, position, status, fault) ==
    IF status = "Exhausted"
    THEN [position |-> position, status |-> status, accessed |-> FALSE,
          res |-> StopIteration]
    ELSE LET pos == position
             ret == get_item(obj, pos, fault)
         IN  IF pos >= 0
             THEN IF ret.tag = "IndexError"
                  THEN [position |-> position - 1, status |-> "Exhausted",
                        accessed |-> TRUE, res |-> StopIteration]
                  ELSE [position |-> position - 1,
                        status |-> IF ret.tag = "Return" THEN status ELSE "Exhausted",
                        accessed |-> TRUE, res |-> ret]
             ELSE [position |-> position - 1, status |-> "Exhausted",
                   accessed |-> FALSE, res |-> StopIteration]

\* PyIter::next for PyReverseSequenceIterator.  `accessed`: get_item was called.
PyReverseSequenceIterator_next(obj, position, status, fault) ==
    IF status = "Exhausted"
    THEN [position |-> position, status |-> status, accessed |-> FALSE,
          res |-> StopIteration]
    ELSE LET pos == position            \* fetch_sub(1) returns the old value
             ret == get_item(obj, pos, fault)
         IN  IF pos >= 0
             THEN IF ret.tag = "IndexError"
                  THEN [position |-> position - 1, status |-> "Exhausted",
                        accessed |-> TRUE, res |-> StopIteration]
                  ELSE [position |-> position - 1, status |-> status,
                        accessed |-> TRUE, res |-> ret]
             ELSE [position |-> position - 1, status |-> "Exhausted",
                   accessed |-> FALSE, res |-> StopIteration]

\* A next call in this state reaches get_item and get_item raises IndexError.
OutOfRange(obj, position, status, fault) ==
    /\ status = "Active"
    /\ position >= 0
    /\ get_item(obj, position, fault).tag = "IndexError"

\* PyReverseSequenceIterator::length_hint.
PyReverseSequenceIterator_length_hint(position) == Return(position + 1)

\* The state arguments of setstate: an integer n that fits an isize ("Int"),
\* an integer too large for one ("Huge"), an object that is no integer
\* ("NotInt").
RevStates ==
    [kind : {"Int"}, n : -2..(MaxSeq + 1)] \cup [kind : {"Huge", "NotInt"}, n : {0}]

\* try_to_primitive(pos.as_bigint(), vm).unwrap_or(0)
try_to_primitive_or_0(state) == IF state.kind = "Huge" THEN 0 ELSE state.n

IntMin(a, b) == IF a <= b THEN a ELSE b

\* Mutant of PyReverseSequenceIterator_setstate: the state is stored whatever
\* the status is.
PyReverseSequenceIterator_setstate_AnyStatus(obj, position, status, state) ==
    LET len == Len(obj)
    IN  IF state.kind = "NotInt"
        THEN [position |-> position,
              res |-> Raise("TypeError", "an integer is required.")]
        ELSE [position |-> IntMin(try_to_primitive_or_0(state), len - 1),
              res |-> ReturnNone]

\* PyReverseSequenceIterator::setstate.
PyReverseSequenceIterator_setstate(obj, position, status, state) ==
    IF status = "Exhausted"
    THEN [position |-> position, res |-> ReturnNone]
    ELSE LET len == Len(obj)
         IN  IF state.kind = "NotInt"
             THEN [position |-> position,
                   res |-> Raise("TypeError", "an integer is required.")]
             ELSE [position |-> IntMin(try_to_primitive_or_0(state), len - 1),
                   res |-> ReturnNone]

\* Mutant of PyReverseSequenceIterator_reduce: the state is the number of
\* items left (length_hint) instead of the position.
PyReverseSequenceIterator_reduce_LengthHint(obj, position, status) ==
    IF status = "Exhausted"
    THEN Return(<<"reversed", <<>>>>)
    ELSE Return(<<"reversed", <<obj>>, position + 1>>)

\* PyReverseSequenceIterator::reduce: (reversed, (obj,), position) for an
\* Active iterator, (reversed, ()) for an Exhausted one.
PyReverseSequenceIterator_reduce(obj, position, status) ==
    IF status = "Exhausted"
    THEN Return(<<"reversed", <<>>>>)
    ELSE Return(<<"reversed", <<obj>>, position>>)

\* vm.ctx.new_int(position) handed back as the state argument of setstate.
new_int(n) == [kind |-> "Int", n |-> n]

\* No call made on the reverse-sequence iterator yet.
\* The state argument recorded for a call that takes none.
NoState == [kind |-> "NotInt", n |-> 0]

RevNoCall ==
    [op |-> "none", prePos |-> 0, preStatus |-> "Exhausted", fault |-> "none",
     accessed |-> FALSE, stoppedBefore |-> FALSE, state |-> NoState,
     len |-> 0, res |-> ReturnNone]

Subjects == UNION {[1..n -> Items] : n \in 0..MaxSeq}

RevIdle ==
    /\ revObj = <<>>
    /\ revPos = -1
    /\ revStatus = "Exhausted"
    /\ revLast = RevNoCall
    /\ revOut = <<>>
    /\ revClean = TRUE
    /\ revStopped = FALSE
    /\ revMutated = FALSE
    /\ revIndexStop = FALSE

RevInit ==
    \E obj \in Subjects :
        LET it == PyReverseSequenceIterator_new(obj, Len(obj))
        IN  /\ revObj = obj
            /\ revPos = it.position
            /\ revStatus = it.status
            /\ revLast = RevNoCall
            /\ revOut = <<>>
            /\ revClean = TRUE
            /\ revStopped = FALSE
            /\ revMutated = FALSE
            /\ revIndexStop = FALSE

RevNext ==
    \E fault \in GetItemFaults :
        LET r == PyReverseSequenceIterator_next(revObj, revPos, revStatus, fault)
            clean == revClean /\ fault = "none"
        IN  \* the fault is an input only when __getitem__ is called
            /\ ~r.accessed => fault = "none"
            /\ revPos' = r.position
            /\ revStatus' = r.status
            /\ revLast' = [op |-> "next", prePos |-> revPos, preStatus |-> revStatus,
                           fault |-> fault, accessed |-> r.accessed,
                           stoppedBefore |-> revStopped, state |-> NoState,
                           len |-> Len(revObj), res |-> r.res]
            /\ revOut' = IF clean /\ r.res.tag = "Return"
                         THEN Append(revOut, r.res.val[1])
                         ELSE IF clean THEN revOut ELSE <<>>
            /\ revClean' = clean
            /\ revStopped' = (revStopped \/ r.res.tag = "StopIteration")
            /\ revIndexStop' = (revIndexStop \/ OutOfRange(revObj, revPos, revStatus, fault))
            /\ UNCHANGED <<revObj, revMutated, zipVars, mapVars, viewVars, enumVars, descrVars, protoVars, opVars, seqVars, concVars, encVars, mulVars>>

RevSetstate ==
    \E state \in RevStates :
        LET r == PyReverseSequenceIterator_setstate(revObj, revPos, revStatus, state)
        IN  /\ revPos' = r.position
            /\ revLast' = [op |-> "setstate", prePos |-> revPos,
                           preStatus |-> revStatus, fault |-> "none",
                           accessed |-> FALSE, stoppedBefore |-> revStopped,
                           state |-> state, len |-> Len(revObj), res |-> r.res]
            /\ revOut' = <<>>
            /\ revClean' = FALSE
            /\ UNCHANGED <<revObj, revStatus, revStopped, revMutated, revIndexStop, zipVars, mapVars, viewVars, enumVars, descrVars, protoVars, opVars, seqVars, concVars, encVars, mulVars>>

RevReduce ==
    /\ revLast' = [op |-> "reduce", prePos |-> revPos, preStatus |-> revStatus,
                   fault |-> "none", accessed |-> FALSE,
                   stoppedBefore |-> revStopped, state |-> NoState,
                   len |-> Len(revObj),
                   res |-> PyReverseSequenceIterator_reduce(revObj, revPos, revStatus)]
    /\ UNCHANGED <<revObj, revPos, revStatus, revOut, revClean, revStopped, revMutated, revIndexStop, zipVars, mapVars, viewVars, enumVars, descrVars, protoVars, opVars, seqVars, concVars, encVars, mulVars>>

RevLengthHint ==
    /\ revLast' = [op |-> "length_hint", prePos |-> revPos, preStatus |-> revStatus,
                   fault |-> "none", accessed |-> FALSE,
                   stoppedBefore |-> revStopped, state |-> NoState,
                   len |-> Len(revObj),
                   res |-> PyReverseSequenceIterator_length_hint(revPos)]
    /\ UNCHANGED <<revObj, revPos, revStatus, revOut, revClean, revStopped, revMutated, revIndexStop, zipVars, mapVars, viewVars, enumVars, descrVars, protoVars, opVars, seqVars, concVars, encVars, mulVars>>

\* The owner of the subject appends an item to it or removes its last item.
RevMutate ==
    /\ \/ \E x \in Items : Len(revObj) < MaxSeq /\ revObj' = Append(revObj, x)
       \/ Len(revObj) > 0 /\ revObj' = SubSeq(revObj, 1, Len(revObj) - 1)
    /\ revOut' = <<>>
    /\ revClean' = FALSE
    /\ revMutated' = TRUE
    /\ UNCHANGED <<revPos, revStatus, revLast, revStopped, revIndexStop, zipVars, mapVars, viewVars, enumVars, descrVars, protoVars, opVars, seqVars, concVars, encVars, mulVars>>

\* ------------------------------------------------ the backing dict
Keys == {1, 2}

Values == {"x", "y"}

\* An entry slot: a live entry, or the slot a deleted entry leaves behind.
Entry(k, v) == [live |-> TRUE, key |-> k, value |-> v]

Deleted == [live |-> FALSE, key |-> 0, value |-> ""]

LiveKeys(entries) == {entries[i].key : i \in {j \in 1..Len(entries) : entries[j].live}}

\* dict.size(): the size signature, whose entries_size counts the slots and
\* used the live entries.
DictSize(entries) ==
    [entries_size |-> Len(entries),
     used         |-> Cardinality({i \in 1..Len(entries) : entries[i].live})]

\* dict.entries.has_changed_size(&size)
has_changed_size(entries, size) == DictSize(entries) # size

\* Option<(position, key, value)>; `diverges`: the call does not return.
None == [some |-> FALSE, diverges |-> FALSE, position |-> 0, key |-> 0, value |-> ""]

Some(p, k, v) == [some |-> TRUE, diverges |-> FALSE, position |-> p, key |-> k, value |-> v]

Diverges == [some |-> FALSE, diverges |-> TRUE, position |-> 0, key |-> 0, value |-> ""]

\* dict.entries.next_entry(position): the first live entry at or after
\* `position`, with the position after it.
RECURSIVE next_entry(_, _)
next_entry(entries, position) ==
    IF position >= Len(entries)
    THEN None
    ELSE LET entry == entries[position + 1]
         IN  IF entry.live
             THEN Some(position + 1, entry.key, entry.value)
             ELSE next_entry(entries, position + 1)

\* dict.entries.prev_entry(position): the first live entry at or before
\* `position`, with the position before it (saturating at 0).  On an empty
\* slot at position 0 the search stays at position 0 and does not return.
RECURSIVE prev_entry(_, _)
prev_entry(entries, position) ==
    IF position >= Len(entries)
    THEN None
    ELSE LET entry == entries[position + 1]
             prev  == IF position = 0 THEN 0 ELSE position - 1
         IN  IF entry.live
             THEN Some(prev, entry.key, entry.value)
             ELSE IF position = 0 THEN Diverges
             ELSE prev_entry(entries, prev)

\* ------------------------------------------------ view iterators
ViewKinds == {"keys", "values", "items"}

\* $result_fn of the three odict_view! instances.
result_fn(kind, key, value) ==
    CASE kind = "keys"   -> key
      [] kind = "values" -> value
      [] OTHER           -> <<key, value>>

ChangedSizeError == Raise("RuntimeError", "dictionary changed size during iteration")

\* $iter_name::new(dict)
ODictIter_new(entries) ==
    [size |-> DictSize(entries), position |-> 0, status |-> "Active"]

\* $reverse_iter_name::new(dict): position = entries_size.saturating_sub(1)
ODictReverseIter_new(entries) ==
    LET size == DictSize(entries)
    IN  [size |-> size,
         position |-> IF size.entries_size = 0 THEN 0 ELSE size.entries_size - 1,
         status |-> "Active"]

\* Mutant of ODictIter_next: the test of has_changed_size is inverted.
ODictIter_next_CheckInverted(it, entries) ==
    IF it.status = "Active"
    THEN IF ~has_changed_size(entries, it.size)
         THEN [position |-> it.position, status |-> "Exhausted",
               checked |-> TRUE, accessed |-> FALSE, diverges |-> FALSE,
               res |-> ChangedSizeError]
         ELSE LET e == next_entry(entries, it.position)
              IN  IF e.some
                  THEN [position |-> e.position, status |-> it.status,
                        checked |-> TRUE, accessed |-> TRUE, diverges |-> FALSE,
                        res |-> Return(result_fn(it.kind, e.key, e.value))]
                  ELSE [position |-> it.position, status |-> "Exhausted",
                        checked |-> TRUE, accessed |-> TRUE, diverges |-> FALSE,
                        res |-> StopIteration]
    ELSE [position |-> it.position, status |-> it.status,
          checked |-> FALSE, accessed |-> FALSE, diverges |-> FALSE,
          res |-> StopIteration]

\* Mutant of ODictIter_next: the changed-size branch raises without setting
\* internal.status to Exhausted.
ODictIter_next_StaysActive(it, entries) ==
    IF it.status = "Active"
    THEN IF has_changed_size(entries, it.size)
         THEN [position |-> it.position, status |-> "Active",
               checked |-> TRUE, accessed |-> FALSE, diverges |-> FALSE,
               res |-> ChangedSizeError]
         ELSE LET e == next_entry(entries, it.position)
              IN  IF e.some
                  THEN [position |-> e.position, status |-> it.status,
                        checked |-> TRUE, accessed |-> TRUE, diverges |-> FALSE,
                        res |-> Return(result_fn(it.kind, e.key, e.value))]
                  ELSE [position |-> it.position, status |-> "Exhausted",
                        checked |-> TRUE, accessed |-> TRUE, diverges |-> FALSE,
                        res |-> StopIteration]
    ELSE [position |-> it.position, status |-> it.status,
          checked |-> FALSE, accessed |-> FALSE, diverges |-> FALSE,
          res |-> StopIteration]

\* IterNext::next of the forward view iterator.  `checked`: the size check
\* ran; `accessed`: the entries were searched.
ODictIter_next(it, entries) ==
    IF it.status = "Active"
    THEN IF has_changed_size(entries, it.size)
         THEN [position |-> it.position, status |-> "Exhausted",
               checked |-> TRUE, accessed |-> FALSE, diverges |-> FALSE,
               res |-> ChangedSizeError]
         ELSE LET e == next_entry(entries, it.position)
              IN  IF e.some
                  THEN [position |-> e.position, status |-> it.status,
                        checked |-> TRUE, accessed |-> TRUE, diverges |-> FALSE,
                        res |-> Return(result_fn(it.kind, e.key, e.value))]
                  ELSE [position |-> it.position, status |-> "Exhausted",
                        checked |-> TRUE, accessed |-> TRUE, diverges |-> FALSE,
                        res |-> StopIteration]
    ELSE [position |-> it.position, status |-> it.status,
          checked |-> FALSE, accessed |-> FALSE, diverges |-> FALSE,
          res |-> StopIteration]

\* Mutant of ODictReverseIter_next: has_changed_size is not consulted.
ODictReverseIter_next_NoSizeCheck(it, entries) ==
    IF it.status = "Active"
    THEN LET e == prev_entry(entries, it.position)
         IN  IF e.some
             THEN [position |-> e.position,
                   status |-> IF it.position = e.position
                              THEN "Exhausted" ELSE it.status,
                   checked |-> FALSE, accessed |-> TRUE, diverges |-> FALSE,
                   res |-> Return(result_fn(it.kind, e.key, e.value))]
             ELSE [position |-> it.position, status |-> "Exhausted",
                   checked |-> FALSE, accessed |-> TRUE,
                   diverges |-> e.diverges, res |-> StopIteration]
    ELSE [position |-> it.position, status |-> it.status,
          checked |-> FALSE, accessed |-> FALSE, diverges |-> FALSE,
          res |-> StopIteration]

\* IterNext::next of the reverse view iterator.
ODictReverseIter_next(it, entries) ==
    IF it.status = "Active"
    THEN IF has_changed_size(entries, it.size)
         THEN [position |-> it.position, status |-> "Exhausted",
               checked |-> TRUE, accessed |-> FALSE, diverges |-> FALSE,
               res |-> ChangedSizeError]
         ELSE LET e == prev_entry(entries, it.position)
              IN  IF e.some
                  THEN [position |-> e.position,
                        status |-> IF it.position = e.position
                                   THEN "Exhausted" ELSE it.status,
                        checked |-> TRUE, accessed |-> TRUE, diverges |-> FALSE,
                        res |-> Return(result_fn(it.kind, e.key, e.value))]
                  ELSE [position |-> it.position, status |-> "Exhausted",
                        checked |-> TRUE, accessed |-> TRUE,
                        diverges |-> e.diverges, res |-> StopIteration]
    ELSE [position |-> it.position, status |-> it.status,
          checked |-> FALSE, accessed |-> FALSE, diverges |-> FALSE,
          res |-> StopIteration]

\* The ids of the view iterators a run may create.
ViewIds == {1, 2}

\* The slot of an iterator not created yet.
NoIter ==
    [made |-> FALSE, kind |-> "keys", reverse |-> FALSE,
     size |-> [entries_size |-> 0, used |-> 0], position |-> 0,
     status |-> "Exhausted"]

\* No call made on a view iterator yet.
ViewNoCall ==
    [op |-> "none", id |-> 0, preStatus |-> "Exhausted", preChanged |-> FALSE,
     othersKept |-> TRUE, preMutated |-> FALSE,
     preReplaced |-> FALSE, stoppedBefore |-> FALSE, erroredBefore |-> FALSE, checked |-> FALSE,
     accessed |-> FALSE, res |-> ReturnNone]

ViewIdle ==
    /\ dictEntries = <<>>
    /\ viewIters = [id \in ViewIds |-> NoIter]
    /\ viewLast = ViewNoCall
    /\ viewHist = [id \in ViewIds |->
                       [stopped |-> FALSE, errored |-> FALSE, mutated |-> FALSE,
                        replaced |-> FALSE, out |-> <<>>,
                        own |-> [position |-> 0, status |-> "Exhausted"]]]

\* The state before any view iterator exists: an empty dict.
ViewInit == ViewIdle

\* iter(view) / reversed(view) on a view of the dict, of one of the given
\* kinds and directions: creates iterator `id`.
ViewNewOf(id, kinds, directions) ==
    \E kind \in kinds, reverse \in directions :
        LET it == IF reverse THEN ODictReverseIter_new(dictEntries)
                  ELSE ODictIter_new(dictEntries)
        IN  /\ ~viewIters[id].made
            /\ viewIters' = [viewIters EXCEPT ![id] =
                   [made |-> TRUE, kind |-> kind, reverse |-> reverse,
                    size |-> it.size, position |-> it.position,
                    status |-> it.status]]
            /\ viewHist' = [viewHist EXCEPT ![id].own =
                   [position |-> it.position, status |-> it.status]]
            /\ UNCHANGED <<dictEntries, viewLast, zipVars, mapVars, revVars, enumVars, descrVars, protoVars, opVars, seqVars, concVars, encVars, mulVars>>

\* iter(view) / reversed(view) on the keys, values or items view of the dict.
ViewNew(id) == ViewNewOf(id, ViewKinds, BOOLEAN)

\* next(it) on view iterator `id`.
ViewNext(id) ==
    LET it == viewIters[id]
        r  == IF it.reverse THEN ODictReverseIter_next(it, dictEntries)
              ELSE ODictIter_next(it, dictEntries)
    IN  /\ it.made
        /\ ~r.diverges
        /\ viewIters' = [viewIters EXCEPT ![id].position = r.position,
                                          ![id].status = r.status]
        /\ viewLast' = [op |-> "next", id |-> id, preStatus |-> it.status,
                        preChanged |-> (DictSize(dictEntries) # it.size),
                        othersKept |-> (\A j \in ViewIds \ {id} :
                                           viewIters'[j] = viewIters[j]),
                        preMutated |-> viewHist[id].mutated,
                        preReplaced |-> viewHist[id].replaced,
                        stoppedBefore |-> viewHist[id].stopped,
                        erroredBefore |-> viewHist[id].errored,
                        checked |-> r.checked, accessed |-> r.accessed,
                        res |-> r.res]
        /\ viewHist' = [viewHist EXCEPT
               ![id].stopped = @ \/ r.res.tag = "StopIteration",
               ![id].errored = @ \/ r.res.tag = "RuntimeError",
               ![id].out = IF r.res.tag = "Return" /\ ~viewHist[id].mutated
                                /\ ~viewHist[id].replaced
                            THEN @ \o r.res.val ELSE @,
               ![id].own = [position |-> r.position, status |-> r.status]]
        /\ UNCHANGED <<dictEntries, zipVars, mapVars, revVars, enumVars, descrVars, protoVars, opVars, seqVars, concVars, encVars, mulVars>>

\* No operation made on a view yet.
OpNoCall ==
    [op |-> "none", kind |-> "keys", preEntries |-> <<>>, postEntries |-> <<>>,
     arg |-> <<>>, res |-> ReturnNone]

OpIdle == opLast = OpNoCall

\* The history of the iterators that exist when the dict gains or loses an
\* entry, and when a stored value is replaced.
NoteMutation ==
    [id \in ViewIds |->
        IF viewIters[id].made
        THEN [viewHist[id] EXCEPT !.mutated = TRUE, !.out = <<>>]
        ELSE viewHist[id]]

NoteReplacement ==
    [id \in ViewIds |->
        IF viewIters[id].made
        THEN [viewHist[id] EXCEPT !.replaced = TRUE, !.out = <<>>]
        ELSE viewHist[id]]

\* d[k] = v for a new key k: a new entry at the end.
DictInsert ==
    \E k \in Keys \ LiveKeys(dictEntries), v \in Values :
        /\ Len(dictEntries) < MaxEntries
        /\ dictEntries' = Append(dictEntries, Entry(k, v))
        /\ opLast' = OpNoCall
        /\ viewHist' = NoteMutation
        /\ UNCHANGED <<viewIters, viewLast, zipVars, mapVars, revVars, enumVars, descrVars, protoVars, seqVars, concVars, encVars, mulVars>>

\* del d[k]: the entry's slot is emptied.
DictDelete ==
    \E i \in 1..Len(dictEntries) :
        /\ dictEntries[i].live
        /\ dictEntries' = [dictEntries EXCEPT ![i] = Deleted]
        /\ opLast' = OpNoCall
        /\ viewHist' = NoteMutation
        /\ UNCHANGED <<viewIters, viewLast, zipVars, mapVars, revVars, enumVars, descrVars, protoVars, seqVars, concVars, encVars, mulVars>>

\* d[k] = v for an existing key k: the value is replaced in place.
DictReplace ==
    \E i \in 1..Len(dictEntries), v \in Values :
        /\ dictEntries[i].live
        /\ dictEntries[i].value # v
        /\ dictEntries' = [dictEntries EXCEPT ![i].value = v]
        /\ opLast' = OpNoCall
        /\ viewHist' = NoteReplacement
        /\ UNCHANGED <<viewIters, viewLast, zipVars, mapVars, revVars, enumVars, descrVars, protoVars, seqVars, concVars, encVars, mulVars>>

\* ------------------------------------------------ ordered-mapping views
\* dict.len(): the number of live entries.
dict_len(entries) == DictSize(entries).used

\* dict.contains(key, vm)
dict_contains(entries, key) == key \in LiveKeys(entries)

\* PyDict::getitem(dict, key, vm) for a key the dict contains.
dict_getitem(entries, key) ==
    LET i == CHOOSE j \in 1..Len(entries) : entries[j].live /\ entries[j].key = key
    IN  entries[i].value

\* $name::new(dict): the view of the given kind.
ODictView_new(kind) == [view |-> kind]

\* Mutant of ODictView_len: the entry slots are counted, empty ones included.
ODictView_len_Slots(entries) == DictSize(entries).entries_size

\* ODictView::len
ODictView_len(entries) == dict_len(entries)

\* Iterable::iter of a view: the forward iterator of its kind.
Iterable_iter(kind, entries) ==
    LET it == ODictIter_new(entries)
    IN  [kind |-> kind, size |-> it.size, position |-> it.position,
         status |-> it.status]

\* PyIterIter over a view iterator: the items it yields until it stops.
RECURSIVE PyIterIter(_, _)
PyIterIter(it, entries) ==
    LET r == ODictIter_next(it, entries)
    IN  IF r.res.tag = "Return"
        THEN <<r.res.val[1]>> \o
             PyIterIter([it EXCEPT !.position = r.position, !.status = r.status],
                        entries)
        ELSE <<>>

\* PySetInner::from_iter: the set of the items of an iterable.
PySetInner_from_iter(items) == {items[i] : i \in 1..Len(items)}

\* PySetInner::{symmetric_difference, intersection, union, difference} with an
\* iterable.
symmetric_difference(set, other) ==
    LET o == PySetInner_from_iter(other) IN (set \ o) \cup (o \ set)

intersection(set, other) == set \cap PySetInner_from_iter(other)

union(set, other) == set \cup PySetInner_from_iter(other)

difference(set, other) == set \ PySetInner_from_iter(other)

\* OrderedViewSetOps::to_set
to_set(kind, entries) ==
    PySetInner_from_iter(PyIterIter(Iterable_iter(kind, entries), entries))

\* OrderedViewSetOps::xor, also registered as __rxor__
OrderedViewSetOps_xor(kind, entries, other) ==
    symmetric_difference(to_set(kind, entries), other)

\* OrderedViewSetOps::and, also registered as __rand__
OrderedViewSetOps_and(kind, entries, other) ==
    intersection(to_set(kind, entries), other)

\* OrderedViewSetOps::or, also registered as __ror__
OrderedViewSetOps_or(kind, entries, other) ==
    union(to_set(kind, entries), other)

\* OrderedViewSetOps::sub
OrderedViewSetOps_sub(kind, entries, other) ==
    difference(to_set(kind, entries), other)

\* Mutant of OrderedViewSetOps_rsub: the view's set is the left operand.
OrderedViewSetOps_rsub_ViewLeft(kind, entries, other) ==
    difference(to_set(kind, entries), other)

\* OrderedViewSetOps::rsub: left = from_iter(other), right = iter(zelf)
OrderedViewSetOps_rsub(kind, entries, other) ==
    LET left  == PySetInner_from_iter(other)
        right == PyIterIter(Iterable_iter(kind, entries), entries)
    IN  difference(left, right)

\* The methods of a set-like view, by the name Python looks up.
SetOpNames ==
    {"__xor__", "__rxor__", "__and__", "__rand__", "__or__", "__ror__",
     "__sub__", "__rsub__"}

SetOp(name, kind, entries, other) ==
    CASE name \in {"__xor__", "__rxor__"} -> OrderedViewSetOps_xor(kind, entries, other)
      [] name \in {"__and__", "__rand__"} -> OrderedViewSetOps_and(kind, entries, other)
      [] name \in {"__or__", "__ror__"}   -> OrderedViewSetOps_or(kind, entries, other)
      [] name = "__sub__"                 -> OrderedViewSetOps_sub(kind, entries, other)
      [] OTHER                            -> OrderedViewSetOps_rsub(kind, entries, other)

\* The views with set operations: PyOrderedDictKeys and PyOrderedDictItems.
SetLikeKinds == {"keys", "items"}

\* The other operand: an iterable of keys, or of (key, value) pairs.
Operands(kind) ==
    IF kind = "keys"
    THEN {<<>>, <<1>>, <<3>>, <<2, 3>>, <<1, 2, 1>>}
    ELSE {<<>>, <<<<1, "x">>>>, <<<<1, "y">>, <<3, "x">>>>,
          <<<<2, "y">>, <<1, "x">>, <<2, "y">>>>}

\* vm.identical_or_equal(a, b): the same object, or equal.
identical_or_equal(a, b) == a = b

\* A probed object: a tuple of the given items, or an object that is not a
\* tuple.
Tuple(items) == [tuple |-> TRUE, items |-> items]

NonTuple(obj) == [tuple |-> FALSE, items |-> <<obj>>]

Needles ==
    {NonTuple(1), Tuple(<<>>), Tuple(<<1>>), Tuple(<<1, "x">>), Tuple(<<1, "y">>),
     Tuple(<<2, "x">>), Tuple(<<3, "x">>), Tuple(<<1, "x", "x">>)}

\* Mutant of PyOrderedDictItems_contains: the stored value is not compared.
PyOrderedDictItems_contains_KeyOnly(entries, needle) ==
    IF ~needle.tuple
    THEN Return(FALSE)
    ELSE IF Len(needle.items) # 2
         THEN Return(FALSE)
         ELSE Return(dict_contains(entries, needle.items[1]))

\* PyOrderedDictItems::contains
PyOrderedDictItems_contains(entries, needle) ==
    IF ~needle.tuple
    THEN Return(FALSE)
    ELSE IF Len(needle.items) # 2
         THEN Return(FALSE)
         ELSE LET key == needle.items[1]
              IN  IF ~dict_contains(entries, key)
                  THEN Return(FALSE)
                  ELSE LET value == needle.items[2]
                           found == dict_getitem(entries, key)
                       IN  Return(identical_or_equal(found, value))

\* The rich comparison operators.
ComparisonOps == {"Lt", "Le", "Eq", "Ne", "Gt", "Ge"}

Ordering(a, b) == IF a < b THEN "Less" ELSE IF a = b THEN "Equal" ELSE "Greater"

\* PyComparisonOp::eval_ord
eval_ord(op, ord) ==
    CASE op = "Lt" -> ord = "Less"
      [] op = "Le" -> ord # "Greater"
      [] op = "Eq" -> ord = "Equal"
      [] op = "Ne" -> ord # "Equal"
      [] op = "Gt" -> ord = "Greater"
      [] OTHER     -> ord # "Less"

NotImplemented == [tag |-> "NotImplemented", val |-> <<>>, msg |-> ""]

\* PyDict::inner_cmp(zelf, other, op, item, vm): the lengths are compared
\* under op, then every entry of the shorter dict is looked up in the longer
\* one, its value compared when `item` is set.
RECURSIVE inner_cmp(_, _, _, _)
inner_cmp(zelf, other, op, item) ==
    IF op = "Ne"
    THEN ~inner_cmp(zelf, other, "Eq", item)
    ELSE IF ~eval_ord(op, Ordering(dict_len(zelf), dict_len(other)))
         THEN FALSE
         ELSE LET swap     == dict_len(zelf) < dict_len(other)
                  superset == IF swap THEN other ELSE zelf
                  subset   == IF swap THEN zelf ELSE other
              IN  \A i \in 1..Len(subset) :
                      subset[i].live =>
                          /\ dict_contains(superset, subset[i].key)
                          /\ item => identical_or_equal(
                                         subset[i].value,
                                         dict_getitem(superset, subset[i].key))

\* PySet::cmp(zelf, other, op, vm) for two sets.
PySet_cmp(zelf, other, op) ==
    CASE op = "Lt" -> zelf \subseteq other /\ zelf # other
      [] op = "Le" -> zelf \subseteq other
      [] op = "Eq" -> zelf = other
      [] op = "Ne" -> zelf # other
      [] op = "Gt" -> other \subseteq zelf /\ zelf # other
      [] OTHER     -> other \subseteq zelf

\* zelf.class() of a view: PyValue::class of the odict_view! instance.
ODictView_class(kind) ==
    CASE kind = "keys"   -> "dict_keys_type"
      [] kind = "values" -> "dict_values_type"
      [] OTHER           -> "dict_items_type"

\* The object a view is compared with: a view over some dict, or a set.
OtherView(kind, entries) == [type |-> "view", kind |-> kind, entries |-> entries, items |-> {}]

OtherSet(items) == [type |-> "set", kind |-> "none", entries |-> <<>>, items |-> items]

\* OrderedViewSetOps::cmp
OrderedViewSetOps_cmp(kind, entries, other, op) ==
    IF other.type = "view" /\ other.kind = kind
    THEN Return(inner_cmp(entries, other.entries, op,
                          ODictView_class(kind) # "dict_keys_type"))
    ELSE IF other.type = "set"
         THEN Return(PySet_cmp(to_set(kind, entries), other.items, op))
         ELSE NotImplemented

\* The dicts behind the views a view is compared with.
OtherDicts ==
    {<<>>, <<Entry(1, "x")>>, <<Entry(1, "y")>>, <<Entry(2, "y"), Entry(1, "x")>>,
     <<Deleted, Entry(1, "x"), Entry(2, "x")>>}

\* The objects a view of the given kind is compared with: views of every
\* kind, and sets of elements of the view's own element type.
Others(kind) ==
    {OtherView(k, d) : k \in ViewKinds, d \in OtherDicts}
        \cup {OtherSet(s) : s \in
                  IF kind = "keys"
                  THEN {{}, {1}, {1, 2}, {3}}
                  ELSE {{}, {<<1, "x">>}, {<<1, "y">>}, {<<1, "x">>, <<2, "y">>}}}

\* view = d.keys(), d.values() or d.items()
ViewMake ==
    \E kind \in ViewKinds :
        /\ UNCHANGED <<viewVars, zipVars, mapVars, revVars, enumVars, descrVars, protoVars, seqVars, concVars, encVars, mulVars>>
        /\ opLast' = [op |-> "new", kind |-> kind, preEntries |-> dictEntries,
                      postEntries |-> dictEntries', arg |-> <<>>, res |-> Return(ODictView_new(kind))]

\* len(view)
ViewLen ==
    \E kind \in ViewKinds :
        /\ UNCHANGED <<viewVars, zipVars, mapVars, revVars, enumVars, descrVars, protoVars, seqVars, concVars, encVars, mulVars>>
        /\ opLast' = [op |-> "len", kind |-> kind, preEntries |-> dictEntries,
                      postEntries |-> dictEntries', arg |-> <<>>, res |-> Return(ODictView_len(dictEntries))]

\* view ^ other, other ^ view, and the like for &, | and -
ViewSetOp ==
    \E kind \in SetLikeKinds, name \in SetOpNames :
        \E other \in Operands(kind) :
            /\ UNCHANGED <<viewVars, zipVars, mapVars, revVars, enumVars, descrVars, protoVars, seqVars, concVars, encVars, mulVars>>
            /\ opLast' = [op |-> "setop", kind |-> kind, preEntries |-> dictEntries,
                          postEntries |-> dictEntries',
                          arg |-> [name |-> name, other |-> other],
                          res |-> Return(SetOp(name, kind, dictEntries, other))]

\* needle in d.items()
ItemsContains ==
    \E needle \in Needles :
        /\ UNCHANGED <<viewVars, zipVars, mapVars, revVars, enumVars, descrVars, protoVars, seqVars, concVars, encVars, mulVars>>
        /\ opLast' = [op |-> "contains", kind |-> "items", preEntries |-> dictEntries,
                      postEntries |-> dictEntries', arg |-> needle,
                      res |-> PyOrderedDictItems_contains(dictEntries, needle)]

\* view == other, view < other, and the like
ViewCmp ==
    \E kind \in SetLikeKinds, op \in ComparisonOps :
        \E other \in Others(kind) :
            /\ UNCHANGED <<viewVars, zipVars, mapVars, revVars, enumVars, descrVars, protoVars, seqVars, concVars, encVars, mulVars>>
            /\ opLast' = [op |-> "cmp", kind |-> kind, preEntries |-> dictEntries,
                          postEntries |-> dictEntries',
                          arg |-> [op |-> op, other |-> other],
                          res |-> OrderedViewSetOps_cmp(kind, dictEntries, other, op)]

\* ------------------------------------------------ sequence comparison
\* The elements of the compared sequences, and the sequences.
SeqElements == {1, 2}

RECURSIVE SeqsOfLen(_)
SeqsOfLen(n) ==
    IF n = 0 THEN {<<>>}
    ELSE {Append(s, e) : s \in SeqsOfLen(n - 1), e \in SeqElements}

SimpleSeqs == UNION {SeqsOfLen(n) : n \in 0..MaxCmpLen}

\* Option<bool>
NoVerdict == [some |-> FALSE, v |-> FALSE]

Verdict(v) == [some |-> TRUE, v |-> v]

\* vm.bool_seq_lt(a, b): true when a < b, false when they are not equal, no
\* verdict when they are equal.
bool_seq_lt(a, b) ==
    IF a < b THEN Verdict(TRUE)
    ELSE IF ~(a = b) THEN Verdict(FALSE)
    ELSE NoVerdict

\* vm.bool_seq_gt(a, b)
bool_seq_gt(a, b) ==
    IF a > b THEN Verdict(TRUE)
    ELSE IF ~(a = b) THEN Verdict(FALSE)
    ELSE NoVerdict

Shorter(a, b) == IF a < b THEN a ELSE b

\* The loop of eq over the zipped pairs, from pair k on.  `compared` counts
\* the pairs of elements the call has compared.
RECURSIVE eq_loop(_, _, _)
eq_loop(zelf, other, k) ==
    IF k > Shorter(Len(zelf), Len(other))
    THEN [res |-> TRUE, compared |-> k - 1]
    ELSE IF ~identical_or_equal(zelf[k], other[k])
         THEN [res |-> FALSE, compared |-> k]
         ELSE eq_loop(zelf, other, k + 1)

\* sequence::eq
sequence_eq(zelf, other) ==
    IF Len(zelf) = Len(other)
    THEN eq_loop(zelf, other, 1)
    ELSE [res |-> FALSE, compared |-> 0]

\* The loop of cmp over the zipped pairs, from pair k on, and the comparison
\* of the lengths after it.
RECURSIVE cmp_loop(_, _, _, _, _)
cmp_loop(zelf, other, op, less, k) ==
    IF k > Shorter(Len(zelf), Len(other))
    THEN [res |-> eval_ord(op, Ordering(Len(zelf), Len(other))),
          compared |-> k - 1]
    ELSE LET ret == IF less THEN bool_seq_lt(zelf[k], other[k])
                    ELSE bool_seq_gt(zelf[k], other[k])
         IN  IF ret.some
             THEN [res |-> ret.v, compared |-> k]
             ELSE cmp_loop(zelf, other, op, less, k + 1)

\* Mutant of sequence_cmp: the lengths are compared first, as eq does.
sequence_cmp_LengthFirst(zelf, other, op) ==
    CASE op = "Eq" -> sequence_eq(zelf, other)
      [] op = "Ne" -> [sequence_eq(zelf, other) EXCEPT !.res = ~@]
      [] OTHER ->
            IF Len(zelf) # Len(other)
            THEN [res |-> eval_ord(op, Ordering(Len(zelf), Len(other))),
                  compared |-> 0]
            ELSE cmp_loop(zelf, other, op, op \in {"Lt", "Le"}, 1)

\* sequence::cmp
sequence_cmp(zelf, other, op) ==
    CASE op = "Eq" -> sequence_eq(zelf, other)
      [] op = "Ne" -> [sequence_eq(zelf, other) EXCEPT !.res = ~@]
      [] OTHER     -> cmp_loop(zelf, other, op, op \in {"Lt", "Le"}, 1)

SeqNoCall ==
    [op |-> "none", zelf |-> <<>>, other |-> <<>>, res |-> FALSE, compared |-> 0]

SeqIdle == seqLast = SeqNoCall

SeqInit == SeqIdle

\* zelf == other, zelf < other, and the like, for two lists or two tuples
SeqCmp ==
    \E zelf \in SimpleSeqs, other \in SimpleSeqs, op \in ComparisonOps :
        LET r == sequence_cmp(zelf, other, op)
        IN  /\ seqLast' = [op |-> op, zelf |-> zelf, other |-> other,
                           res |-> r.res, compared |-> r.compared]
            /\ UNCHANGED <<zipVars, mapVars, revVars, viewVars, enumVars, descrVars, protoVars, opVars, concVars, encVars, mulVars>>

\* ------------------------------------------------------- PyEnumerate
\* num_bigint::BigInt: a sign and a magnitude, the magnitude a vector of digits
\* of WordBits bits each, least significant first, without leading zero
\* digits; zero has no digit and is not negative.
Base == 2 ^ WordBits

RECURSIVE MagVal(_)
MagVal(mag) == IF mag = <<>> THEN 0 ELSE mag[1] + Base * MagVal(Tail(mag))

\* The integer a BigInt stands for.
BigVal(b) == IF b.neg THEN 0 - MagVal(b.mag) ELSE MagVal(b.mag)

RECURSIVE Normalize(_)
Normalize(mag) ==
    IF mag # <<>> /\ mag[Len(mag)] = 0
    THEN Normalize(SubSeq(mag, 1, Len(mag) - 1))
    ELSE mag

\* magnitude + 1: the carry runs up the digits and grows the vector.
RECURSIVE MagInc(_)
MagInc(mag) ==
    IF mag = <<>> THEN <<1>>
    ELSE IF mag[1] < Base - 1 THEN <<mag[1] + 1>> \o Tail(mag)
    ELSE <<0>> \o MagInc(Tail(mag))

\* magnitude - 1, for a magnitude that is not zero: the borrow runs up.
RECURSIVE MagDec(_)
MagDec(mag) ==
    IF mag[1] > 0 THEN <<mag[1] - 1>> \o Tail(mag)
    ELSE <<Base - 1>> \o MagDec(Tail(mag))

BigInt_zero == [neg |-> FALSE, mag |-> <<>>]

\* `*counter += 1` on a BigInt.
BigInt_add_one(b) ==
    IF b.neg
    THEN LET d == Normalize(MagDec(b.mag))
         IN  [neg |-> d # <<>>, mag |-> d]
    ELSE [neg |-> FALSE, mag |-> MagInc(b.mag)]

\* `+= 1` as a counter of one machine word would do it: the carry out of the
\* word is lost.
WrappingAddOne(b) ==
    IF b.neg
    THEN BigInt_add_one(b)
    ELSE IF b.mag = <<>> THEN [neg |-> FALSE, mag |-> <<1>>]
    ELSE [neg |-> FALSE,
          mag |-> Normalize(<<(b.mag[1] + 1) % Base>> \o Tail(b.mag))]

\* The BigInts of at most MaxDigits digits.
Magnitudes ==
    {mag \in UNION {[1..n -> 0..(Base - 1)] : n \in 0..MaxDigits} :
        Normalize(mag) = mag}

BigInts ==
    {[neg |-> FALSE, mag |-> mag] : mag \in Magnitudes}
        \cup {[neg |-> TRUE, mag |-> mag] : mag \in Magnitudes \ {<<>>}}

\* EnumerateArgs.start: OptionalArg<PyIntRef>.
StartArgs ==
    {[present |-> FALSE, int |-> BigInt_zero]}
        \cup {[present |-> TRUE, int |-> b] : b \in BigInts}

\* PyEnumerate::tp_new, for an iterable get_iter succeeds on (a list of `len`
\* items).
PyEnumerate_tp_new(len, start) ==
    [counter  |-> IF start.present THEN start.int ELSE BigInt_zero,
     iterator |-> ListIter(len)]

\* Mutant of PyEnumerate_next: the counter is incremented before the
\* sub-iterator is asked, and the incremented value is paired with the item.
PyEnumerate_next_IncrementFirst(counter, it, raises) ==
    LET r == SubNext(it, 0)
        c == BigInt_add_one(counter)
    IN  IF raises
        THEN [counter |-> c, it |-> it, res |-> SubError]
        ELSE IF r.res.tag # "Return"
        THEN [counter |-> c, it |-> r.it, res |-> r.res]
        ELSE [counter |-> c, it |-> r.it, res |-> Return(<<c, r.res.val[1]>>)]

\* Mutant of PyEnumerate_next: the counter is one machine word.
PyEnumerate_next_WordCounter(counter, it, raises) ==
    LET r == SubNext(it, 0)
    IN  IF raises
        THEN [counter |-> counter, it |-> it, res |-> SubError]
        ELSE IF r.res.tag # "Return"
        THEN [counter |-> counter, it |-> r.it, res |-> r.res]
        ELSE [counter |-> WrappingAddOne(counter), it |-> r.it,
              res |-> Return(<<counter, r.res.val[1]>>)]

\* PyIter::next for PyEnumerate: `?` returns the sub-iterator's StopIteration
\* or error before the counter is touched; otherwise the pair (position,
\* next_obj) is returned and the counter incremented.
PyEnumerate_next(counter, it, raises) ==
    LET r == SubNext(it, 0)
    IN  IF raises
        THEN [counter |-> counter, it |-> it, res |-> SubError]
        ELSE IF r.res.tag # "Return"
        THEN [counter |-> counter, it |-> r.it, res |-> r.res]
        ELSE LET position == counter
             IN  [counter |-> BigInt_add_one(counter), it |-> r.it,
                  res |-> Return(<<position, r.res.val[1]>>)]

\* No call made on the enumerate object yet.
EnumNoCall ==
    [op |-> "none", pre |-> BigInt_zero, post |-> BigInt_zero, okBefore |-> 0,
     res |-> ReturnNone]

EnumIdle ==
    /\ enumCounter = BigInt_zero
    /\ enumIter = ListIter(0)
    /\ enumStart = [present |-> FALSE, int |-> BigInt_zero]
    /\ enumOk = 0
    /\ enumLast = EnumNoCall

EnumInit ==
    \E len \in 0..MaxLen, start \in StartArgs :
        LET e == PyEnumerate_tp_new(len, start)
        IN  /\ enumCounter = e.counter
            /\ enumIter = e.iterator
            /\ enumStart = start
            /\ enumOk = 0
            /\ enumLast = EnumNoCall

EnumNext ==
    \E raises \in BOOLEAN :
        LET r == PyEnumerate_next(enumCounter, enumIter, raises)
        IN  \* only a sub-iterator that is not exhausted raises
            /\ raises => enumIter.pos < enumIter.len
            /\ enumCounter' = r.counter
            /\ enumIter' = r.it
            /\ enumOk' = IF r.res.tag = "Return" THEN enumOk + 1 ELSE enumOk
            /\ enumLast' = [op |-> "next", pre |-> enumCounter,
                            post |-> r.counter, okBefore |-> enumOk,
                            res |-> r.res]
            /\ UNCHANGED <<enumStart, zipVars, mapVars, revVars, viewVars, descrVars, protoVars, opVars, seqVars, concVars, encVars, mulVars>>

\* ------------------------------------- PyWrapperDescriptor, PyMethodWrapper
\* The types: S is a subclass of T, U is unrelated to both; every type derives
\* from object, and the runtime type of a type is `type`.
TypeNames == {"T", "S", "U"}

iter_mro(t) ==
    CASE t = "S"    -> <<"S", "T", "object">>
      [] t = "T"    -> <<"T", "object">>
      [] t = "U"    -> <<"U", "object">>
      [] t = "type" -> <<"type", "object">>
      [] OTHER      -> <<"object">>

\* t is cls or derives from it.
fast_issubclass(t, cls) == \E i \in 1..Len(iter_mro(t)) : iter_mro(t)[i] = cls

\* The objects handed to the descriptor: an instance of a type, or a type
\* itself.
Instance(t) == [kind |-> "instance", of |-> t]

TypeObject(t) == [kind |-> "type", of |-> t]

Objects == {Instance(t) : t \in TypeNames} \cup {TypeObject(t) : t \in TypeNames}

\* obj.class(): the runtime type of an object.
class(obj) == IF obj.kind = "type" THEN "type" ELSE obj.of

\* What is_subclass does with a receiver that is not a type.
NotAClass == {"raise", "false"}

\* s.is_subclass(cls, vm): whether the object s, taken as a type, is cls or
\* derives from it.  An s that is no type has no bases: the test raises, or
\* answers false.
is_subclass(s, cls, notAClass) ==
    IF s.kind = "type"
    THEN [ok |-> TRUE, val |-> fast_issubclass(s.of, cls), err |-> ReturnNone]
    ELSE IF notAClass = "raise"
    THEN [ok |-> FALSE, val |-> FALSE,
          err |-> Raise("TypeError", <<"issubclass() arg 1 must be a class">>)]
    ELSE [ok |-> TRUE, val |-> FALSE, err |-> ReturnNone]

\* The dispatch function (WrapperFunc) returns a value or raises.
DispatchBehaviours == {"value", "error"}

\* (self.wrapper)(zelf, args, vm)
wrapper(beh, zelf, args) ==
    IF beh = "value"
    THEN Return([dispatch |-> zelf, args |-> args])
    ELSE Raise("Error", "dispatch raised")

\* PyWrapperDescriptor::raw_call.  `ran`: the dispatch function was invoked, on
\* `zelf` with `args`.
raw_call(beh, zelf, args) ==
    [res |-> wrapper(beh, zelf, args), ran |-> 1, zelf |-> zelf, args |-> args]

NoDispatch(res) ==
    [res |-> res, ran |-> 0, zelf |-> Instance("U"), args |-> <<>>]

NeedsArgumentMsg(d) == <<"descriptor '", d.name, "' of '", d.class, "' object needs an argument">>

RequiresMsg(d, s) ==
    <<"descriptor '", d.name, "' requires a '", d.class,
      "' object but received a '", class(s), "'">>

\* Callable::call for PyWrapperDescriptor.
PyWrapperDescriptor_call(d, args, notAClass, beh) ==
    IF Len(args) < 1
    THEN NoDispatch(Raise("TypeError", NeedsArgumentMsg(d)))
    ELSE LET s == args[1]
             t == is_subclass(s, d.class, notAClass)
         IN  IF ~t.ok THEN NoDispatch(t.err)
             ELSE IF ~t.val
             THEN NoDispatch(Raise("TypeError", RequiresMsg(d, s)))
             ELSE raw_call(beh, s, args)

\* Option<PyObjectRef>::None: the descriptor read through its type.
NoObj == [kind |-> "none", of |-> "none"]

\* GetDescriptor::_check: without an object the descriptor itself is the
\* result; with one, the pair (descriptor, object).
check(d, obj) ==
    IF obj = NoObj
    THEN [ok |-> FALSE, result |-> Return(d)]
    ELSE [ok |-> TRUE, result |-> ReturnNone]

\* PyMethodWrapper::new.
PyMethodWrapper_new(d, zelf) == [descr |-> d, zelf |-> zelf]

\* GetDescriptor::descr_get for PyWrapperDescriptor.  `made`: the bound-methods
\* allocated by the call.
descr_get(d, obj) ==
    LET c == check(d, obj)
    IN  IF ~c.ok
        THEN [res |-> c.result, made |-> <<>>]
        ELSE [res |-> Return(PyMethodWrapper_new(d, obj)),
              made |-> <<PyMethodWrapper_new(d, obj)>>]

\* Mutant of PyMethodWrapper_call: the receiver is put in front of the
\* caller's arguments.
PyMethodWrapper_call_ReceiverInArgs(w, args, beh) ==
    raw_call(beh, w.zelf, <<w.zelf>> \o args)

\* Callable::call for PyMethodWrapper.
PyMethodWrapper_call(w, args, beh) == raw_call(beh, w.zelf, args)

\* The argument lists of a call of the descriptor: none, one object, or one
\* object followed by one more argument.
ArgLists ==
    {<<>>} \cup {<<s>> : s \in Objects}
           \cup {<<s, Instance("U")>> : s \in Objects}

\* The receivers the descriptor is bound to.
Receivers == {Instance(t) : t \in TypeNames}

\* The argument lists of a call of a bound-method.
WrapperArgLists == {<<>>, <<Instance("U")>>, <<Instance("U"), Instance("T")>>}

\* PyWrapperDescriptor::new(name, class, wrapper).
PyWrapperDescriptor_new(name, cls) == [name |-> name, class |-> cls]

\* No operation made on the descriptor yet.
DescrNoCall ==
    [op |-> "none", args |-> <<>>, obj |-> NoObj, wrapper |-> 0,
     preDescr |-> PyWrapperDescriptor_new("__op__", "T"),
     preWrappers |-> <<>>, ran |-> 0, ranZelf |-> Instance("U"),
     ranArgs |-> <<>>, res |-> ReturnNone]

DescrIdle ==
    /\ descr = PyWrapperDescriptor_new("__op__", "T")
    /\ wrappers = <<>>
    /\ dispatched = 0
    /\ descrLast = DescrNoCall

DescrInit ==
    \E cls \in TypeNames :
        /\ descr = PyWrapperDescriptor_new("__op__", cls)
        /\ wrappers = <<>>
        /\ dispatched = 0
        /\ descrLast = [DescrNoCall EXCEPT !.preDescr = descr]

\* The descriptor called as a callable, unbound.
DescrCall ==
    \E args \in ArgLists, notAClass \in NotAClass, beh \in DispatchBehaviours :
        LET r == PyWrapperDescriptor_call(descr, args, notAClass, beh)
        IN  /\ dispatched + r.ran <= MaxDispatch
            \* the inputs that the call does not use are fixed
            /\ (r.ran = 0) => beh = "value"
            /\ (Len(args) < 1 \/ args[1].kind = "type") => notAClass = "raise"
            /\ dispatched' = dispatched + r.ran
            /\ descrLast' = [op |-> "call", args |-> args, obj |-> NoObj,
                             wrapper |-> 0, preDescr |-> descr,
                             preWrappers |-> wrappers, ran |-> r.ran,
                             ranZelf |-> r.zelf, ranArgs |-> r.args,
                             res |-> r.res]
            /\ UNCHANGED <<descr, wrappers, zipVars, mapVars, revVars, viewVars, enumVars, protoVars, opVars, seqVars, concVars, encVars, mulVars>>

\* Attribute access: the descriptor bound to a receiver (or read through its
\* type, without one).
DescrGet ==
    \E obj \in Receivers \cup {NoObj} :
        LET r == descr_get(descr, obj)
        IN  /\ Len(wrappers) + Len(r.made) <= MaxWrappers
            /\ wrappers' = wrappers \o r.made
            /\ descrLast' = [op |-> "get", args |-> <<>>, obj |-> obj,
                             wrapper |-> 0, preDescr |-> descr,
                             preWrappers |-> wrappers, ran |-> 0,
                             ranZelf |-> Instance("U"), ranArgs |-> <<>>,
                             res |-> r.res]
            /\ UNCHANGED <<descr, dispatched, zipVars, mapVars, revVars, viewVars, enumVars, protoVars, opVars, seqVars, concVars, encVars, mulVars>>

\* A bound-method called.
WrapperCall ==
    \E i \in 1..Len(wrappers), args \in WrapperArgLists, beh \in DispatchBehaviours :
        LET r == PyMethodWrapper_call(wrappers[i], args, beh)
        IN  /\ dispatched + r.ran <= MaxDispatch
            /\ dispatched' = dispatched + r.ran
            /\ descrLast' = [op |-> "wrapper_call", args |-> args,
                             obj |-> NoObj, wrapper |-> i, preDescr |-> descr,
                             preWrappers |-> wrappers, ran |-> r.ran,
                             ranZelf |-> r.zelf, ranArgs |-> r.args,
                             res |-> r.res]
            /\ UNCHANGED <<descr, wrappers, zipVars, mapVars, revVars, viewVars, enumVars, protoVars, opVars, seqVars, concVars, encVars, mulVars>>

\* ------------------------------------------------------ mapping protocol
\* The operations of PyMappingMethods.
MappingOps == {"length", "subscript", "ass_subscript"}

\* A slot of PyMappingMethods: Option<fn>.  The function a type supplies is
\* named by the type (`by`, the type's name) and the operation.
NoSlot == [some |-> FALSE, by |-> 0]

SomeSlot(t) == [some |-> TRUE, by |-> t]

\* The PyMappingMethods of type t in which exactly the operations `ops` have
\* a function.
MappingMethods(t, ops) ==
    [op \in MappingOps |-> IF op \in ops THEN SomeSlot(t) ELSE NoSlot]

NoMethods == MappingMethods(0, {})

\* cls.slots.as_mapping: Option of a function giving the type's
\* PyMappingMethods.
AsMappingSlots(t) ==
    {[some |-> FALSE, methods |-> NoMethods]}
        \cup {[some |-> TRUE, methods |-> MappingMethods(t, ops)] :
                 ops \in SUBSET MappingOps}

\* A type: its name (its place in the MRO, 1 for the object's own type) and
\* its as_mapping slot.
Types(t) == [name : {t}, as_mapping : AsMappingSlots(t)]

\* The MROs of at most MaxMro types.
Mros ==
    UNION {{mro \in [1..n -> UNION {Types(t) : t \in 1..n}] :
               \A i \in 1..n : mro[i].name = i} : n \in 1..MaxMro}

DictLikeRequired(name) == <<"a dict-like object is required, not '", name, "'">>

\* The loop of try_from_borrowed_object / try_from_object from the index-th
\* type of the MRO on.
RECURSIVE MroWalk(_, _)
MroWalk(mro, index) ==
    IF index > Len(mro)
    THEN [ok |-> FALSE, methods |-> NoMethods, at |-> 0,
          err |-> Raise("TypeError", DictLikeRequired(mro[1].name))]
    ELSE IF mro[index].as_mapping.some
    THEN [ok |-> TRUE, methods |-> mro[index].as_mapping.methods, at |-> index,
          err |-> ReturnNone]
    ELSE MroWalk(mro, index + 1)

\* Mutant of try_from_borrowed_object: only the object's own type is asked.
try_from_borrowed_object_OwnTypeOnly(mro) ==
    IF mro[1].as_mapping.some
    THEN [ok |-> TRUE, methods |-> mro[1].as_mapping.methods, at |-> 1,
          err |-> ReturnNone]
    ELSE [ok |-> FALSE, methods |-> NoMethods, at |-> 0,
          err |-> Raise("TypeError", DictLikeRequired(mro[1].name))]

\* TryFromBorrowedObject for PyMappingMethods (mapping.rs).
try_from_borrowed_object(mro) == MroWalk(mro, 1)

\* TryFromObject for PyMappingMethods (map.rs).
try_from_object(mro) == MroWalk(mro, 1)

\* PyMapping::check.
PyMapping_check(mro) ==
    LET mapping == try_from_borrowed_object(mro)
    IN  IF mapping.ok THEN mapping.methods["subscript"].some ELSE FALSE

NoLenMsg(name) == <<"object of type ", name, " has no len()">>

\* PyMapping::size: the length function called, or the TypeError.
PyMapping_size(mro) ==
    LET mapping == try_from_borrowed_object(mro)
    IN  IF mapping.ok /\ mapping.methods["length"].some
        THEN Return([called |-> "length", by |-> mapping.methods["length"].by])
        ELSE Raise("TypeError", NoLenMsg(mro[1].name))

\* TryFromObject for PyMapping.
PyMapping_try_from_object(mro) ==
    IF PyMapping_check(mro)
    THEN ReturnNone
    ELSE Raise("TypeError", <<mro[1].name, " is not a mapping object">>)

\* No protocol operation made yet.
ProtoNoCall ==
    [op |-> "none", preMro |-> <<>>, ok |-> FALSE, methods |-> NoMethods,
     at |-> 0, res |-> ReturnNone]

ProtoIdle ==
    /\ protoMro = <<[name |-> 1, as_mapping |-> [some |-> FALSE, methods |-> NoMethods]]>>
    /\ protoLast = ProtoNoCall

ProtoInit ==
    /\ protoMro \in Mros
    /\ protoLast = ProtoNoCall

\* PyMappingMethods::try_from_borrowed_object(vm, &obj)
ProtoResolveBorrowed ==
    LET r == try_from_borrowed_object(protoMro)
    IN  /\ protoLast' = [op |-> "try_from_borrowed_object", preMro |-> protoMro,
                         ok |-> r.ok, methods |-> r.methods, at |-> r.at,
                         res |-> r.err]
        /\ UNCHANGED <<protoMro, zipVars, mapVars, revVars, viewVars, enumVars, descrVars, opVars, seqVars, concVars, encVars, mulVars>>

\* PyMappingMethods::try_from_object(vm, obj)
ProtoResolveOwned ==
    LET r == try_from_object(protoMro)
    IN  /\ protoLast' = [op |-> "try_from_object", preMro |-> protoMro,
                         ok |-> r.ok, methods |-> r.methods, at |-> r.at,
                         res |-> r.err]
        /\ UNCHANGED <<protoMro, zipVars, mapVars, revVars, viewVars, enumVars, descrVars, opVars, seqVars, concVars, encVars, mulVars>>

\* PyMapping::size(vm)
ProtoSize ==
    LET r == PyMapping_size(protoMro)
    IN  /\ protoLast' = [op |-> "size", preMro |-> protoMro,
                         ok |-> r.tag = "Return", methods |-> NoMethods,
                         at |-> 0, res |-> r]
        /\ UNCHANGED <<protoMro, zipVars, mapVars, revVars, viewVars, enumVars, descrVars, opVars, seqVars, concVars, encVars, mulVars>>

\* PyMapping::try_from_object(vm, obj), which decides by PyMapping::check
ProtoCheck ==
    LET r == PyMapping_try_from_object(protoMro)
    IN  /\ protoLast' = [op |-> "check", preMro |-> protoMro,
                         ok |-> PyMapping_check(protoMro), methods |-> NoMethods,
                         at |-> 0, res |-> r]
        /\ UNCHANGED <<protoMro, zipVars, mapVars, revVars, viewVars, enumVars, descrVars, opVars, seqVars, concVars, encVars, mulVars>>

\* ------------------------------------------------------ sequence protocol
\* cls.slots.as_sequence: Option of a function giving the type's sequence
\* table, named here by the type that supplies it.
AsSequenceSlots(t) == {NoSlot, SomeSlot(t)}

\* A type with its as_mapping and as_sequence slots.
SeqTypes(t) ==
    [name : {t}, as_mapping : AsMappingSlots(t), as_sequence : AsSequenceSlots(t)]

SeqMros ==
    UNION {{mro \in [1..n -> UNION {SeqTypes(t) : t \in 1..n}] :
               \A i \in 1..n : mro[i].name = i} : n \in 1..MaxMro}

BytesLikeRequired(name) == <<"a bytes-like object is required, not '", name, "'">>

\* The sequence table the function of type t gives.
SequenceMethods(t) == [table |-> "sequence", by |-> t]

\* `for cls in obj_cls.iter_mro()` of PySequenceMethodsRef, from the index-th
\* type on: the table of the first type whose as_sequence is Some.
RECURSIVE SeqMroWalk(_, _)
SeqMroWalk(mro, index) ==
    IF index > Len(mro)
    THEN Raise("TypeError", BytesLikeRequired(mro[1].name))
    ELSE IF mro[index].as_sequence.some
    THEN Return(SequenceMethods(mro[index].as_sequence.by))
    ELSE SeqMroWalk(mro, index + 1)

\* TryFromBorrowedObject for PySequenceMethodsRef: the MRO is walked only
\* when PyMapping::try_from_object gives Err.
PySequenceMethodsRef_try_from_borrowed_object(mro) ==
    IF PyMapping_try_from_object(mro).tag = "TypeError"
    THEN SeqMroWalk(mro, 1)
    ELSE Raise("TypeError", BytesLikeRequired(mro[1].name))

ProtoSeqInit ==
    /\ protoMro \in SeqMros
    /\ protoLast = ProtoNoCall

\* PySequenceMethodsRef::try_from_borrowed_object(vm, &obj)
ProtoResolveSequence ==
    LET r == PySequenceMethodsRef_try_from_borrowed_object(protoMro)
    IN  /\ protoLast' = [op |-> "sequence", preMro |-> protoMro,
                         ok |-> r.tag = "Return", methods |-> NoMethods,
                         at |-> 0, res |-> r]
        /\ UNCHANGED <<protoMro, zipVars, mapVars, revVars, viewVars, enumVars, descrVars, opVars, seqVars, concVars, encVars, mulVars>>

\* ------------------------------------------------------------ SeqMul
\* Option<DynPyIter>: None, or an iterator over seq that has consumed `pos`
\* items.
NoBoxedIter == [some |-> FALSE, pos |-> 0]

\* self.seq.boxed_iter()
boxed_iter == [some |-> TRUE, pos |-> 0]

\* repetitions.to_usize().unwrap_or(0) for an isize.
to_usize_or_0(repetitions) == IF repetitions < 0 THEN 0 ELSE repetitions

\* seq_mul(seq, repetitions).
seq_mul(seq, repetitions) ==
    [seq |-> seq,
     repetitions |-> IF Len(seq) > 0 THEN to_usize_or_0(repetitions) ELSE 0,
     iter |-> NoBoxedIter]

\* Iterator::next for SeqMul: Some(item) from the current iterator, else a new
\* iterator for the next repetition, else None.
RECURSIVE SeqMul_next(_, _, _)
SeqMul_next(seq, repetitions, iter) ==
    IF iter.some /\ iter.pos < Len(seq)
    THEN [repetitions |-> repetitions, iter |-> [iter EXCEPT !.pos = @ + 1],
          res |-> Return(seq[iter.pos + 1])]
    ELSE IF repetitions = 0
    THEN [repetitions |-> repetitions, iter |-> iter, res |-> ReturnNone]
    ELSE SeqMul_next(seq, repetitions - 1, boxed_iter)

\* Mutant of SeqMul_size_hint: the items left in the current iterator are not
\* counted.
SeqMul_size_hint_WholeOnly(seq, repetitions, iter) ==
    LET size == repetitions * Len(seq)
    IN  Return([lower |-> size, upper |-> Return(size)])

\* Iterator::size_hint for SeqMul: (size, Some(size)).
SeqMul_size_hint(seq, repetitions, iter) ==
    LET size == (IF iter.some THEN Len(seq) - iter.pos ELSE 0)
                    + (repetitions * Len(seq))
    IN  Return([lower |-> size, upper |-> Return(size)])

MulNoCall == [op |-> "none", res |-> ReturnNone]

MulIdle ==
    /\ mulSeq = <<>>
    /\ mulReps = 0
    /\ mulIter = NoBoxedIter
    /\ mulArg = 0
    /\ mulOut = <<>>
    /\ mulLast = MulNoCall

MulInit ==
    \E seq \in SimpleSeqs, repetitions \in -1..MaxReps :
        LET s == seq_mul(seq, repetitions)
        IN  /\ mulSeq = s.seq
            /\ mulReps = s.repetitions
            /\ mulIter = s.iter
            /\ mulArg = repetitions
            /\ mulOut = <<>>
            /\ mulLast = MulNoCall

MulNext ==
    LET r == SeqMul_next(mulSeq, mulReps, mulIter)
    IN  /\ mulReps' = r.repetitions
        /\ mulIter' = r.iter
        /\ mulOut' = IF r.res.tag = "Return" THEN Append(mulOut, r.res.val[1])
                     ELSE mulOut
        /\ mulLast' = [op |-> "next", res |-> r.res]
        /\ UNCHANGED <<mulSeq, mulArg, zipVars, mapVars, revVars, viewVars, enumVars, descrVars, protoVars, opVars, seqVars, concVars, encVars>>

MulSizeHint ==
    /\ mulLast' = [op |-> "size_hint",
                   res |-> SeqMul_size_hint(mulSeq, mulReps, mulIter)]
    /\ UNCHANGED <<mulSeq, mulReps, mulIter, mulArg, mulOut, zipVars, mapVars, revVars, viewVars, enumVars, descrVars, protoVars, opVars, seqVars, concVars, encVars>>

\* -------------------------------- threads sharing a forward view iterator
\* The threads that hold view iterator 1 and call next on it.
Threads == {1, 2}

NoThread == 0

\* PyMutex::lock returns once no thread holds the mutex.
PyMutex_lock(holder) == holder = NoThread

\* What a thread holds before it has searched the entries.
NoLocal ==
    [position |-> 0, status |-> "Exhausted", checked |-> FALSE,
     accessed |-> FALSE, diverges |-> FALSE, res |-> ReturnNone]

ConcIdle ==
    /\ concPc = [t \in Threads |-> "out"]
    /\ concLocal = [t \in Threads |-> NoLocal]
    /\ concMutex = NoThread
    /\ concOut = <<>>

\* The dict is filled and emptied before the iterator is created, and left
\* alone from then on.
ConcBuild == ~viewIters[1].made /\ (DictInsert \/ DictDelete)

\* Thread t calls next(it).
ConcCall(t) ==
    /\ viewIters[1].made
    /\ concPc[t] = "out"
    /\ concPc' = [concPc EXCEPT ![t] = "waiting"]
    /\ UNCHANGED <<concLocal, concMutex, concOut, zipVars, mapVars, revVars, viewVars, enumVars, descrVars, protoVars, opVars, seqVars, encVars, mulVars>>

\* Mutant of ConcLock: next goes on without holding the lock.
ConcLock_NoWait(t) ==
    /\ concPc[t] = "waiting"
    /\ concMutex' = t
    /\ concPc' = [concPc EXCEPT ![t] = "locked"]
    /\ UNCHANGED <<concLocal, concOut, zipVars, mapVars, revVars, viewVars, enumVars, descrVars, protoVars, opVars, seqVars, encVars, mulVars>>

\* let mut internal = zelf.internal.lock();
ConcLock(t) ==
    /\ concPc[t] = "waiting"
    /\ PyMutex_lock(concMutex)
    /\ concMutex' = t
    /\ concPc' = [concPc EXCEPT ![t] = "locked"]
    /\ UNCHANGED <<concLocal, concOut, zipVars, mapVars, revVars, viewVars, enumVars, descrVars, protoVars, opVars, seqVars, encVars, mulVars>>

\* The reads of next: internal.status, the size check, next_entry from
\* internal.position.
ConcRead(t) ==
    /\ concPc[t] = "locked"
    /\ concLocal' = [concLocal EXCEPT ![t] = ODictIter_next(viewIters[1], dictEntries)]
    /\ concPc' = [concPc EXCEPT ![t] = "read"]
    /\ UNCHANGED <<concMutex, concOut, zipVars, mapVars, revVars, viewVars, enumVars, descrVars, protoVars, opVars, seqVars, encVars, mulVars>>

\* The one store of next (internal.position on Some, internal.status on None
\* and on a changed size, none when the iterator was found Exhausted), the
\* return, and the drop of the guard.
ConcStore(t) ==
    LET r == concLocal[t]
    IN  /\ concPc[t] = "read"
        /\ viewIters' =
               IF r.res.tag = "Return"
               THEN [viewIters EXCEPT ![1].position = r.position]
               ELSE IF r.checked
               THEN [viewIters EXCEPT ![1].status = "Exhausted"]
               ELSE viewIters
        /\ concOut' = IF r.res.tag = "Return"
                      THEN Append(concOut, <<t, r.position>>)
                      ELSE concOut
        /\ concMutex' = NoThread
        /\ concLocal' = [concLocal EXCEPT ![t] = NoLocal]
        /\ concPc' = [concPc EXCEPT ![t] = "out"]
        /\ UNCHANGED <<dictEntries, viewLast, viewHist, zipVars, mapVars, revVars, enumVars, descrVars, protoVars, opVars, seqVars, encVars, mulVars>>

\* -------------------------------- threads sharing an enumerate object
\* What a thread holds before it has pulled an item.
NoItem == <<>>

EncNoCall == [op |-> "none", thread |-> NoThread, res |-> ReturnNone]

EncIdle ==
    /\ encPc = [t \in Threads |-> "out"]
    /\ encItem = [t \in Threads |-> NoItem]
    /\ encLast = EncNoCall

\* let next_obj = iterator::call_next(vm, &zelf.iterator)?;
\* Thread t calls next and pulls from the sub-iterator; `?` returns the
\* sub-iterator's StopIteration or error at once.
EncPull(t) ==
    \E raises \in BOOLEAN :
        LET r == SubNext(enumIter, 0)
        IN  /\ encPc[t] = "out"
            /\ raises => enumIter.pos < enumIter.len
            /\ enumIter' = IF raises THEN enumIter ELSE r.it
            /\ IF ~raises /\ r.res.tag = "Return"
               THEN /\ encPc' = [encPc EXCEPT ![t] = "pulled"]
                    /\ encItem' = [encItem EXCEPT ![t] = r.res.val[1]]
                    /\ UNCHANGED encLast
               ELSE /\ encLast' = [op |-> "next", thread |-> t,
                                   res |-> IF raises THEN SubError ELSE r.res]
                    /\ UNCHANGED <<encPc, encItem, mulVars>>
            /\ UNCHANGED <<enumCounter, enumStart, enumOk, enumLast, zipVars, mapVars, revVars, viewVars, descrVars, protoVars, opVars, seqVars, concVars, mulVars>>

\* let mut counter = zelf.counter.write(); let position = counter.clone();
\* *counter += 1; Ok((position, next_obj)): one step under the write lock.
EncCount(t) ==
    LET position == enumCounter
    IN  /\ encPc[t] = "pulled"
        /\ enumCounter' = BigInt_add_one(enumCounter)
        /\ enumOk' = enumOk + 1
        /\ encLast' = [op |-> "next", thread |-> t,
                       res |-> Return(<<position, encItem[t]>>)]
        /\ encPc' = [encPc EXCEPT ![t] = "out"]
        /\ encItem' = [encItem EXCEPT ![t] = NoItem]
        /\ UNCHANGED <<enumIter, enumStart, enumLast, zipVars, mapVars, revVars, viewVars, descrVars, protoVars, opVars, seqVars, concVars, mulVars>>

\* ------------------------------------------------------- specifications
NextZip == ZipNext \/ ZipSetstate \/ ZipReduce

InitZip == ZipInit /\ MapIdle /\ RevIdle /\ ViewIdle /\ EnumIdle /\ DescrIdle /\ ProtoIdle /\ OpIdle /\ SeqIdle /\ ConcIdle /\ EncIdle /\ MulIdle

SpecZip == InitZip /\ [][NextZip]_vars

NextMap == MapNext \/ MapLengthHint

InitMap == MapInit /\ ZipIdle /\ RevIdle /\ ViewIdle /\ EnumIdle /\ DescrIdle /\ ProtoIdle /\ OpIdle /\ SeqIdle /\ ConcIdle /\ EncIdle /\ MulIdle

SpecMap == InitMap /\ [][NextMap]_vars

NextRev == RevNext \/ RevSetstate \/ RevReduce \/ RevLengthHint \/ RevMutate

InitRev == RevInit /\ ZipIdle /\ MapIdle /\ ViewIdle /\ EnumIdle /\ DescrIdle /\ ProtoIdle /\ OpIdle /\ SeqIdle /\ ConcIdle /\ EncIdle /\ MulIdle

SpecRev == InitRev /\ [][NextRev]_vars

\* One view iterator over a dict that is inserted into, deleted from and
\* updated before and during the iteration.
NextView ==
    \/ ViewNew(1)
    \/ ViewNext(1)
    \/ DictInsert
    \/ DictDelete
    \/ DictReplace

InitView == ViewInit /\ ZipIdle /\ MapIdle /\ RevIdle /\ EnumIdle /\ DescrIdle /\ ProtoIdle /\ OpIdle /\ SeqIdle /\ ConcIdle /\ EncIdle /\ MulIdle

SpecView == InitView /\ [][NextView]_vars

NextEnum == EnumNext

InitEnum == EnumInit /\ ZipIdle /\ MapIdle /\ RevIdle /\ ViewIdle /\ DescrIdle /\ ProtoIdle /\ OpIdle /\ SeqIdle /\ ConcIdle /\ EncIdle /\ MulIdle

SpecEnum == InitEnum /\ [][NextEnum]_vars

NextDescr == DescrCall \/ DescrGet \/ WrapperCall

InitDescr == DescrInit /\ ZipIdle /\ MapIdle /\ RevIdle /\ ViewIdle /\ EnumIdle /\ ProtoIdle /\ OpIdle /\ SeqIdle /\ ConcIdle /\ EncIdle /\ MulIdle

SpecDescr == InitDescr /\ [][NextDescr]_vars

NextProto == ProtoResolveBorrowed \/ ProtoResolveOwned \/ ProtoSize \/ ProtoCheck

InitProto == ProtoInit /\ ZipIdle /\ MapIdle /\ RevIdle /\ ViewIdle /\ EnumIdle /\ DescrIdle /\ OpIdle /\ SeqIdle /\ ConcIdle /\ EncIdle /\ MulIdle

SpecProto == InitProto /\ [][NextProto]_vars

\* A map object and a zip object: map(f, ...) beside zip(), or zip(...) beside
\* map(f, []).
NextMapZip == MapNext \/ ZipNext

InitMapZip == MapInit /\ ZipInit /\ (zipIters = <<>> \/ mapIters = PyMap_tp_new(<<0>>)) /\ RevIdle /\ ViewIdle /\ EnumIdle /\ DescrIdle /\ ProtoIdle /\ OpIdle /\ SeqIdle /\ ConcIdle /\ EncIdle /\ MulIdle

SpecMapZip == InitMapZip /\ [][NextMapZip]_vars

\* Comparisons of sequences.
NextSeq == SeqCmp

InitSeq == SeqInit /\ ZipIdle /\ MapIdle /\ RevIdle /\ ViewIdle /\ EnumIdle /\ DescrIdle /\ ProtoIdle /\ OpIdle /\ ConcIdle /\ EncIdle /\ MulIdle

SpecSeq == InitSeq /\ [][NextSeq]_vars

\* Two iterators over the views of one dict.
NextViews ==
    \/ ViewNewOf(1, {"keys"}, {FALSE})
    \/ ViewNewOf(2, {"values"}, {TRUE})
    \/ ViewNext(1)
    \/ ViewNext(2)
    \/ DictInsert
    \/ DictDelete

InitViews == ViewInit /\ ZipIdle /\ MapIdle /\ RevIdle /\ EnumIdle /\ DescrIdle /\ ProtoIdle /\ OpIdle /\ SeqIdle /\ ConcIdle /\ EncIdle /\ MulIdle

SpecViews == InitViews /\ [][NextViews]_vars

\* The views of a dict that is filled and emptied while they are in use.
NextViewSet ==
    \/ ViewMake
    \/ ViewLen
    \/ ViewSetOp
    \/ ItemsContains
    \/ DictInsert
    \/ DictDelete
    \/ DictReplace

InitViewSet == ViewInit /\ ZipIdle /\ MapIdle /\ RevIdle /\ EnumIdle /\ DescrIdle /\ ProtoIdle /\ OpIdle /\ SeqIdle /\ ConcIdle /\ EncIdle /\ MulIdle

SpecViewSet == InitViewSet /\ [][NextViewSet]_vars

\* The comparisons of the views of a dict that is filled and emptied.
NextViewCmp ==
    \/ ViewCmp
    \/ DictInsert
    \/ DictDelete
    \/ DictReplace

InitViewCmp == ViewInit /\ ZipIdle /\ MapIdle /\ RevIdle /\ EnumIdle /\ DescrIdle /\ ProtoIdle /\ OpIdle /\ SeqIdle /\ ConcIdle /\ EncIdle /\ MulIdle

SpecViewCmp == InitViewCmp /\ [][NextViewCmp]_vars

\* Two threads calling next on one forward view iterator over a dict that is
\* built beforehand.
NextConc ==
    \/ ConcBuild
    \/ ViewNewOf(1, ViewKinds, {FALSE})
    \/ \E t \in Threads : ConcCall(t) \/ ConcLock(t) \/ ConcRead(t) \/ ConcStore(t)

InitConc == ViewInit /\ ZipIdle /\ MapIdle /\ RevIdle /\ EnumIdle /\ DescrIdle /\ ProtoIdle /\ OpIdle /\ SeqIdle /\ ConcIdle /\ EncIdle /\ MulIdle

SpecConc == InitConc /\ [][NextConc]_vars

\* Two threads calling next on one enumerate object.
NextEnc == \E t \in Threads : EncPull(t) \/ EncCount(t)

InitEnc == EnumInit /\ ZipIdle /\ MapIdle /\ RevIdle /\ ViewIdle /\ DescrIdle /\ ProtoIdle /\ OpIdle /\ SeqIdle /\ ConcIdle /\ EncIdle /\ MulIdle

SpecEnc == InitEnc /\ [][NextEnc]_vars

\* The sequence protocol and the mapping check of an object whose type and
\* bases supply sequence and mapping slots.
NextProtoSeq == ProtoResolveSequence \/ ProtoCheck

InitProtoSeq == ProtoSeqInit /\ ZipIdle /\ MapIdle /\ RevIdle /\ ViewIdle /\ EnumIdle /\ DescrIdle /\ OpIdle /\ SeqIdle /\ ConcIdle /\ EncIdle /\ MulIdle

SpecProtoSeq == InitProtoSeq /\ [][NextProtoSeq]_vars

\* A sequence repeated.
NextMul == MulNext \/ MulSizeHint

InitMul == MulInit /\ ZipIdle /\ MapIdle /\ RevIdle /\ ViewIdle /\ EnumIdle /\ DescrIdle /\ ProtoIdle /\ OpIdle /\ SeqIdle /\ ConcIdle /\ EncIdle

SpecMul == InitMul /\ [][NextMul]_vars

\* ------------------------------------------------------------ zip claims
\* ---- helpers of the claims' statements
HasItem(it) == it.pos < it.len

Min(S) == CHOOSE x \in S : \A y \in S : x <= y

\* The k-th tuple (k from 1) of n parallel iterables: item k-1 of each.
TupleAt(n, k) == [i \in 1..n |-> Item(i - 1, k - 1)]

ZipN == Len(zipIters)

\* In the last next call no sub-iterator at 0-based positions 0..i raised.
ZipNoRaiseUpTo(i) == zipLast.raiser = -1 \/ zipLast.raiser > i

\* In the pre-state of the last call, sub-iterators 0..i-1 have an item and
\* sub-iterator i is exhausted.
ZipFirstExhausted(i) ==
    /\ i + 1 <= Len(zipLast.pre)
    /\ \A j \in 1..i : HasItem(zipLast.pre[j])
    /\ ~HasItem(zipLast.pre[i + 1])

\* The message the claims state for argument position i (0-based), `verb`
\* being "shorter" or "longer".
ClaimedMsg(i, verb) ==
    IF i = 1
    THEN "zip() argument " \o ToString(i + 1) \o " is " \o verb \o " than argument 1"
    ELSE "zip() argument " \o ToString(i + 1) \o " is " \o verb \o " than arguments 1-"
             \o ToString(i)

\* C5: strict zip, shorter case: when in one next call the sub-iterator at
\* 0-based position i > 0 is exhausted after sub-iterators 0..i-1 each yielded,
\* next raises ValueError 'zip() argument {i+1} is shorter than argument 1'
\* (i = 1) or '... than arguments 1-{i}' (i > 1).
C5_StrictShorter ==
    (zipLast.op = "next" /\ zipLast.strict) =>
        \A i \in 1..(MaxIters + 1) :
            (ZipFirstExhausted(i) /\ ZipNoRaiseUpTo(i)) =>
                /\ zipLast.res.tag = "ValueError"
                /\ zipLast.res.msg = ClaimedMsg(i, "shorter")

\* C5 witness: the third of three sub-iterators was the first to exhaust under
\* strict and the plural message was raised.
C5_Witness ==
    /\ zipLast.op = "next" /\ zipLast.strict
    /\ ZipFirstExhausted(2) /\ ZipNoRaiseUpTo(2)
    /\ zipLast.res.msg = "zip() argument 3 is shorter than arguments 1-2"

\* The smallest 0-based position j >= 1 whose sub-iterator still had an item
\* before the last call (0 when there is none).
ZipFirstLonger ==
    LET S == {j \in 1..(Len(zipLast.pre) - 1) : HasItem(zipLast.pre[j + 1])}
    IN  IF S = {} THEN 0 ELSE Min(S)

\* C6: strict zip, longer case: when the first sub-iterator is exhausted and
\* the sub-iterator at 0-based position j >= 1 still yields a value, next raises
\* ValueError 'zip() argument {j+1} is longer than argument 1' (j = 1) or
\* '... than arguments 1-{j}' (j > 1).
C6_StrictLonger ==
    (/\ zipLast.op = "next" /\ zipLast.strict /\ zipLast.raiser = -1
     /\ ZipFirstExhausted(0)
     /\ ZipFirstLonger >= 1) =>
        /\ zipLast.res.tag = "ValueError"
        /\ zipLast.res.msg = ClaimedMsg(ZipFirstLonger, "longer")

\* C7: strict zip probes every remaining operand: when the first sub-iterator
\* is exhausted, next raises the length-mismatch error if any later
\* sub-iterator still has a value, and returns ordinary StopIteration only if
\* all sub-iterators are exhausted.
C7_StrictProbesAll ==
    (/\ zipLast.op = "next" /\ zipLast.strict /\ zipLast.raiser = -1
     /\ ZipFirstExhausted(0)) =>
        /\ ZipFirstLonger > 0 => zipLast.res.tag = "ValueError"
        /\ zipLast.res.tag = "StopIteration" => ZipFirstLonger = 0

\* All sub-iterators have the same length.
ZipEqualLens == \A i, j \in 1..ZipN : zipIters[i].len = zipIters[j].len

\* The tuples yielded so far are the first ones of the parallel iterables, and no
\* sub-iterator has been advanced past them.
ZipOutInOrder ==
    /\ \A k \in 1..Len(zipOut) : zipOut[k] = TupleAt(ZipN, k)
    /\ (zipLast.op = "next" /\ zipLast.res.tag = "Return") =>
           zipLast.res.val[1] = zipOut[Len(zipOut)]

\* C8: strict zip over N >= 1 sub-iterators of one length n yields exactly the n
\* tuples (item k of every sub-iterator, in argument order) and then returns
\* StopIteration, with no error, on the (n+1)-th and every later next.
C8_StrictEqualLengths ==
    (/\ ZipN >= 1 /\ ZipEqualLens
     /\ zipModes \subseteq {TRUE} /\ ~zipRaised) =>
        /\ ZipOutInOrder
        /\ \A i \in 1..ZipN : zipIters[i].pos = Len(zipOut)
        /\ zipLast.op = "next" =>
              /\ zipLast.res.tag \in {"Return", "StopIteration"}
              /\ zipLast.res.tag = "Return" <=> HasItem(zipLast.pre[1])
              /\ zipLast.res.tag = "StopIteration" => Len(zipOut) = zipIters[1].len

\* C8 witness: a strict zip of three length-2 sub-iterators has yielded both
\* tuples and a further next, made when already exhausted, returned
\* StopIteration.
C8_Witness ==
    /\ ZipN = 3 /\ ZipEqualLens /\ zipIters[1].len = 2
    /\ zipModes = {TRUE} /\ ~zipRaised
    /\ Len(zipOut) = 2
    /\ zipLast.op = "next" /\ zipLast.strict
    /\ zipLast.res.tag = "StopIteration"
    /\ ~HasItem(zipLast.pre[1])

\* C9: lenient zip never raises a length-mismatch error; over sub-iterators of
\* finite lengths it yields exactly min(lengths) tuples in order and then
\* returns StopIteration; over zero sub-iterators its first next returns
\* StopIteration.
C9_Lenient ==
    /\ (zipLast.op = "next" /\ ~zipLast.strict) => zipLast.res.tag # "ValueError"
    /\ (zipModes \subseteq {FALSE} /\ ~zipRaised) =>
          /\ ZipOutInOrder
          /\ ZipN >= 1 => Len(zipOut) <= Min({zipIters[i].len : i \in 1..ZipN})
          /\ zipLast.op = "next" =>
                /\ zipLast.res.tag \in {"Return", "StopIteration"}
                /\ zipLast.res.tag = "Return" <=>
                       (ZipN >= 1 /\ \A i \in 1..ZipN : HasItem(zipLast.pre[i]))
                /\ zipLast.res.tag = "StopIteration" =>
                       Len(zipOut) = IF ZipN = 0 THEN 0
                                     ELSE Min({zipIters[i].len : i \in 1..ZipN})

\* C9 witness: a lenient zip over lengths 2, 1, 2 yielded one tuple and then
\* returned StopIteration, the first sub-iterator having been advanced past an
\* item that was discarded.
C9_Witness ==
    /\ ZipN = 3 /\ zipModes = {FALSE} /\ ~zipRaised
    /\ zipIters[1].len = 2 /\ zipIters[2].len = 1 /\ zipIters[3].len = 2
    /\ Len(zipOut) = 1
    /\ zipIters[1].pos = 2
    /\ zipLast.op = "next" /\ zipLast.res.tag = "StopIteration"

\* ------------------------------------------------------------ map claims
MapN == Len(mapIters)

\* C3: sticky exhaustion of map: once a next on the map iterator has returned
\* StopIteration for any reason (the mapper signalling stop included), every
\* later next returns StopIteration too.  Stated for a map over at least one
\* iterable and for the calls in which nothing raises an error.
C3_MapSticky ==
    (/\ MapN >= 1
     /\ mapLast.op = "next" /\ mapLast.stoppedBefore
     /\ mapLast.res.tag # "Error") =>
        mapLast.res.tag = "StopIteration"

\* C10: map shortest-stop: over N >= 1 sub-iterators of finite lengths and a
\* mapper that never signals stop (nor raises), map yields exactly min(lengths)
\* results, the k-th being the mapper applied positionally to the k-th item of
\* every sub-iterator in argument order; next returns StopIteration as soon as
\* any sub-iterator is exhausted, without invoking the mapper in that round.
C10_MapShortestStop ==
    (MapN >= 1 /\ mapBehs \subseteq {"value"} /\ ~mapRaised) =>
        /\ \A k \in 1..Len(mapOut) : mapOut[k] = Apply(TupleAt(MapN, k))
        /\ Len(mapOut) <= Min({mapIters[i].len : i \in 1..MapN})
        /\ mapLast.op = "next" =>
              /\ mapLast.res.tag \in {"Return", "StopIteration"}
              /\ mapLast.res.tag = "Return" <=>
                     (\A i \in 1..MapN : HasItem(mapLast.pre[i]))
              /\ mapLast.res.tag = "Return" =>
                     /\ mapLast.invoked
                     /\ mapLast.res.val[1] = mapOut[Len(mapOut)]
              /\ mapLast.res.tag = "StopIteration" =>
                     /\ ~mapLast.invoked
                     /\ Len(mapOut) = Min({mapIters[i].len : i \in 1..MapN})

\* C10 witness: map(f, [a, b], [c]) yielded f(a, c) and its second next
\* returned StopIteration, the first sub-iterator having given up its second
\* item, without invoking the mapper.
C10_Witness ==
    /\ MapN = 2 /\ mapIters[1].len = 2 /\ mapIters[2].len = 1
    /\ mapBehs = {"value"} /\ ~mapRaised
    /\ mapOut = <<Apply(<<Item(0, 0), Item(1, 0)>>)>>
    /\ mapIters[1].pos = 2
    /\ mapLast.op = "next" /\ mapLast.res.tag = "StopIteration"
    /\ ~mapLast.invoked

\* ------------------------------------------- reverse-iterator claims
\* C4: a reverse-sequence iterator over an unchanging subject of length n
\* yields exactly the items at indices n-1, n-2, ..., 0 in that order, one per
\* next call, and then returns StopIteration; for n = 0 it is created already
\* Exhausted and its first next returns StopIteration without any item access.
C4_ReverseOrder ==
    LET n == Len(revObj)
        k == Len(revOut)
    IN  revClean =>
            /\ k <= n
            /\ \A j \in 1..k : revOut[j] = revObj[n - j + 1]
            /\ n = 0 => revStatus = "Exhausted"
            /\ revLast.op = "none" => (k = 0 /\ revPos = n - 1)
            /\ revLast.op = "next" =>
                  /\ revLast.res.tag \in {"Return", "StopIteration"}
                  /\ revLast.res.tag = "Return" =>
                        /\ revLast.prePos = n - k
                        /\ revLast.res.val[1] = revObj[n - k + 1]
                  /\ revLast.res.tag = "StopIteration" =>
                        /\ k = n
                        /\ ~revLast.accessed
                        /\ revStatus = "Exhausted"

\* C4 witness: over the unchanged subject [a, a, b] the iterator yielded
\* b, a, a and its fourth next returned StopIteration.
C4_Witness ==
    /\ revClean
    /\ revObj = <<"a", "a", "b">>
    /\ revOut = <<"b", "a", "a">>
    /\ revLast.op = "next" /\ revLast.res.tag = "StopIteration"
    /\ revStatus = "Exhausted"

\* The items an iterator in the given state yields from now on, over a subject
\* whose __getitem__ only indexes its items.
RECURSIVE Remaining(_, _, _)
Remaining(obj, position, status) ==
    LET r == PyReverseSequenceIterator_next(obj, position, status, "none")
    IN  IF r.res.tag = "Return"
        THEN <<r.res.val[1]>> \o Remaining(obj, r.position, r.status)
        ELSE <<>>

\* The iterator rebuilt from the result of reduce: the reconstructor applied to
\* the subject, then setstate with the state.
Rebuilt(reduced) ==
    LET obj   == reduced[2][1]
        fresh == PyReverseSequenceIterator_new(obj, Len(obj))
        set   == PyReverseSequenceIterator_setstate(obj, fresh.position,
                                                    fresh.status, new_int(reduced[3]))
    IN  [obj |-> obj, position |-> set.position, status |-> fresh.status]

\* C16: round trip of the reverse-sequence iterator: for an Active iterator
\* after any number of successful next calls over its subject, reduce() gives
\* (reconstructor, (subject,), position), and a fresh iterator built by the
\* reconstructor over a subject of equal length and equal items and given
\* setstate(position) yields the same remaining sequence as the original.
C16_RoundTrip ==
    (revLast.op = "reduce" /\ revLast.preStatus = "Active" /\ ~revMutated) =>
        /\ Len(revLast.res.val[1]) = 3
        /\ revLast.res.val[1][2] = <<revObj>>
        /\ revLast.res.val[1][3] = revPos
        /\ LET it == Rebuilt(revLast.res.val[1])
           IN  Remaining(it.obj, it.position, it.status)
                   = Remaining(revObj, revPos, revStatus)

\* reduce was called on an Active iterator over [a, b, b] that had yielded one
\* item: two remain.
C16_Witness ==
    /\ revLast.op = "reduce" /\ revLast.preStatus = "Active" /\ ~revMutated
    /\ revClean
    /\ revObj = <<"a", "b", "b">>
    /\ revOut = <<"b">>
    /\ Remaining(revObj, revPos, revStatus) = <<"b", "a">>

\* p clamped into [0, len - 1]; an integer too large for a machine word is
\* larger than len - 1.
Clamped(state, len) ==
    IF state.kind = "Huge" THEN len - 1
    ELSE IF state.n < 0 THEN 0
    ELSE IF state.n > len - 1 THEN len - 1
    ELSE state.n

\* C17: restoring a position p onto an Active reverse-sequence iterator sets
\* its position to p clamped into [0, length-1], for every integer p (negative,
\* in range, larger than length-1, too large for a machine word), where length
\* is the subject's length at the moment of the setstate call.
C17_SetstateClamps ==
    (/\ revLast.op = "setstate"
     /\ revLast.preStatus = "Active"
     /\ revLast.state.kind # "NotInt") =>
        revPos = Clamped(revLast.state, revLast.len)

\* C18: setstate on an already-Exhausted reverse-sequence iterator is a no-op
\* for every state argument: it returns success, leaves position and status
\* unchanged, and the iterator remains Exhausted.
C18_SetstateExhaustedNoop ==
    (revLast.op = "setstate" /\ revLast.preStatus = "Exhausted") =>
        /\ revLast.res = ReturnNone
        /\ revPos = revLast.prePos
        /\ revStatus = "Exhausted"

\* setstate was called with an object that is no integer on an iterator that
\* was exhausted by next over a subject of two items.
C18_Witness ==
    /\ revLast.op = "setstate" /\ revLast.preStatus = "Exhausted"
    /\ revLast.state.kind = "NotInt"
    /\ revStopped
    /\ Len(revObj) = 2

\* ------------------------------------------------------- view claims
\* The iterator the last view call was made on.
ViewLastIt == viewIters[viewLast.id]

\* C1: for every ordered-mapping view iterator (keys, values, items; forward
\* and reverse): a next on an Active iterator while the dict's size signature
\* differs from the iterator's snapshot raises RuntimeError 'dictionary
\* changed size during iteration' (no item, no StopIteration) and leaves the
\* iterator Exhausted; every later next on it returns StopIteration.
C1_ChangedSizeIsFatal ==
    viewLast.op = "next" =>
        /\ (viewLast.preStatus = "Active" /\ viewLast.preChanged) =>
              /\ viewLast.res = ChangedSizeError
              /\ ViewLastIt.status = "Exhausted"
        /\ viewLast.erroredBefore =>
              /\ viewLast.res = StopIteration
              /\ ViewLastIt.status = "Exhausted"
        /\ viewLast.res.tag = "RuntimeError" =>
              (viewLast.preStatus = "Active" /\ viewLast.preChanged)

\* Some live entry lies at or after 0-based position p.
LiveFrom(p) == \E i \in (p + 1)..Len(dictEntries) : dictEntries[i].live

\* C1 witness: a next on an Active forward items iterator found the dict's
\* size changed and raised, although a live entry still lay ahead of its
\* position.
C1_Witness ==
    /\ viewLast.op = "next"
    /\ viewLast.preStatus = "Active" /\ viewLast.preChanged
    /\ viewLast.res.tag = "RuntimeError"
    /\ ViewLastIt.kind = "items" /\ ~ViewLastIt.reverse
    /\ ViewLastIt.position >= 1
    /\ LiveFrom(ViewLastIt.position)

\* ------------------------------------------- sticky-exhaustion claim
\* C2: sticky exhaustion of the state-owning iterators: for the
\* reverse-sequence iterator and every ordered-mapping view iterator, once a
\* next has returned StopIteration the status is never Active again and every
\* later next returns StopIteration without accessing the subject (no item
\* access, no size check), whatever next, setstate and mutations of the
\* subject are interleaved.
C2_RevSticky ==
    /\ revStopped => revStatus = "Exhausted"
    /\ (revLast.op = "next" /\ revLast.stoppedBefore) =>
          /\ revLast.res = StopIteration
          /\ ~revLast.accessed

C2_ViewSticky ==
    /\ \A id \in ViewIds : viewHist[id].stopped => viewIters[id].status = "Exhausted"
    /\ (viewLast.op = "next" /\ viewLast.stoppedBefore) =>
          /\ viewLast.res = StopIteration
          /\ ~viewLast.checked
          /\ ~viewLast.accessed

C2_StickyExhaustion == C2_RevSticky /\ C2_ViewSticky

\* ------------------------------------------------------ enumerate claims
\* The start value the constructor was given, 0 when omitted.
EnumS == IF enumStart.present THEN BigVal(enumStart.int) ELSE 0

\* C11: enumerate with start value s (0 when omitted): the next call that
\* follows k successful ones, when it succeeds, returns the pair (s + k, k-th
\* item of the sub-iterator); the counter always equals s plus the number of
\* successful next calls; a next call in which the sub-iterator is exhausted
\* or raises leaves the counter unchanged.
C11_EnumerateCounter ==
    /\ BigVal(enumCounter) = EnumS + enumOk
    /\ (enumLast.op = "next" /\ enumLast.res.tag = "Return") =>
           /\ BigVal(enumLast.res.val[1][1]) = EnumS + enumLast.okBefore
           /\ enumLast.res.val[1][2] = Item(0, enumLast.okBefore)
    /\ (enumLast.op = "next" /\ enumLast.res.tag # "Return") =>
           /\ enumLast.post = enumLast.pre
           /\ enumCounter = enumLast.pre

\* An enumerate with a start value other than 0 has yielded two pairs and has
\* then been told that its sub-iterator is exhausted.
C11_Witness ==
    /\ enumStart.present /\ EnumS # 0
    /\ enumOk = 2
    /\ enumLast.op = "next" /\ enumLast.res.tag = "StopIteration"

\* C12: the enumerate counter is an arbitrary-precision integer: from any
\* start value, the largest value of a machine word and values beyond it
\* included, each successful next increases it by exactly 1 (no wrap-around,
\* no saturation, no overflow error).
C12_CounterUnbounded ==
    (enumLast.op = "next" /\ enumLast.res.tag = "Return") =>
        /\ BigVal(enumLast.post) = BigVal(enumLast.pre) + 1
        /\ enumCounter = enumLast.post
        /\ Normalize(enumLast.post.mag) = enumLast.post.mag

\* A successful next has taken the counter from the largest value of MaxDigits
\* digits to the first value that needs one digit more.
C12_Witness ==
    /\ enumLast.op = "next" /\ enumLast.res.tag = "Return"
    /\ ~enumLast.pre.neg
    /\ Len(enumLast.pre.mag) = MaxDigits
    /\ \A i \in 1..MaxDigits : enumLast.pre.mag[i] = Base - 1
    /\ Len(enumLast.post.mag) = MaxDigits + 1

\* ----------------------------------------------------- descriptor claims
\* The receiver the last bound-method call was made on.
LastWrapper == descrLast.preWrappers[descrLast.wrapper]

\* C13: calling an unbound descriptor with zero positional arguments raises a
\* TypeError and never invokes the dispatch function; calling it with a first
\* positional argument whose runtime type is not a subclass of the owner type
\* raises a TypeError naming the descriptor, the owner type and the received
\* type, and never invokes the dispatch function; when the first argument's
\* runtime type is a subclass of the owner type the dispatch function is
\* invoked exactly once.
C13_UnboundCall ==
    descrLast.op = "call" =>
        /\ Len(descrLast.args) = 0 =>
               descrLast.res.tag = "TypeError" /\ descrLast.ran = 0
        /\ (/\ Len(descrLast.args) >= 1
            /\ ~fast_issubclass(class(descrLast.args[1]), descr.class)) =>
               /\ descrLast.res.tag = "TypeError"
               /\ descrLast.res.msg = RequiresMsg(descr, descrLast.args[1])
               /\ descrLast.ran = 0
        /\ (/\ Len(descrLast.args) >= 1
            /\ fast_issubclass(class(descrLast.args[1]), descr.class)) =>
               descrLast.ran = 1

\* C14: binding a descriptor whose owner type is T to a receiver whose type U
\* is unrelated to T and then invoking the resulting bound-method raises a
\* type error naming T and U, and the dispatch function is not run on that
\* receiver.
C14_UnrelatedReceiver ==
    (/\ descrLast.op = "wrapper_call"
     /\ ~fast_issubclass(class(LastWrapper.zelf), descr.class)
     /\ ~fast_issubclass(descr.class, class(LastWrapper.zelf))) =>
        /\ descrLast.res.tag = "TypeError"
        /\ descrLast.ran = 0

\* C15: bind (descr_get) never invokes the dispatch function and produces a
\* new bound-method holding exactly the given (descriptor, receiver) on every
\* access, the descriptor staying as it was; each call of a bound-method
\* invokes the dispatch function exactly once, with the stored receiver and
\* the caller's argument list unmodified.
C15_BindAndCall ==
    /\ (descrLast.op = "get" /\ descrLast.obj # NoObj) =>
           /\ descrLast.ran = 0
           /\ descrLast.res.tag = "Return"
           /\ descrLast.res.val[1] = [descr |-> descrLast.preDescr,
                                      zelf |-> descrLast.obj]
           /\ wrappers = Append(descrLast.preWrappers, descrLast.res.val[1])
           /\ descr = descrLast.preDescr
    /\ descrLast.op = "wrapper_call" =>
           /\ descrLast.ran = 1
           /\ descrLast.ranZelf = LastWrapper.zelf
           /\ descrLast.ranArgs = descrLast.args
           /\ wrappers = descrLast.preWrappers
           /\ descr = descrLast.preDescr

\* Two bound-methods have been made for the same receiver, and one of them has
\* been called with two arguments.
C15_Witness ==
    /\ Len(wrappers) = 2
    /\ wrappers[1] = wrappers[2]
    /\ descrLast.op = "wrapper_call"
    /\ descrLast.ran = 1
    /\ Len(descrLast.args) = 2
    /\ dispatched = 1

\* ------------------------------------------------ mapping-protocol claims
\* The places in the MRO of the types that supply the as_mapping slot.
Suppliers(mro) == {i \in 1..Len(mro) : mro[i].as_mapping.some}

\* The places in the MRO of the types that supply a function for `op`.
SuppliersOf(mro, op) ==
    {i \in Suppliers(mro) : mro[i].as_mapping.methods[op].some}

First(S) == CHOOSE i \in S : \A j \in S : i <= j

LastResolve == protoLast.op \in {"try_from_borrowed_object", "try_from_object"}

\* C19: mapping-protocol resolution walks the MRO of the object's type front
\* to back and uses the first type that supplies the mapping slot; if no type
\* of the MRO supplies it, resolution fails with the TypeError 'a dict-like
\* object is required, not '<type name>'' naming the object's own type;
\* resolution never modifies a type or a slot table.
C19_MappingResolution ==
    LastResolve =>
        /\ protoMro = protoLast.preMro
        /\ Suppliers(protoMro) # {} =>
               /\ protoLast.ok
               /\ protoLast.at = First(Suppliers(protoMro))
               /\ protoLast.methods = protoMro[protoLast.at].as_mapping.methods
        /\ Suppliers(protoMro) = {} =>
               /\ ~protoLast.ok
               /\ protoLast.res.tag = "TypeError"
               /\ protoLast.res.msg = DictLikeRequired(protoMro[1].name)

\* The object's own type does not supply the mapping slot, a base of it
\* does: resolution has used the base's table.
C19_Witness ==
    /\ LastResolve
    /\ Len(protoMro) = 3
    /\ Suppliers(protoMro) = {2, 3}
    /\ protoLast.ok /\ protoLast.at = 2

\* C20: slot resolution is per operation: for each of length, subscript and
\* subscript-assignment the function used is that of the first type in MRO
\* order that supplies a non-empty slot for that operation; in particular
\* PyMapping::size succeeds whenever any type in the MRO supplies a length
\* slot, even if an earlier type in the MRO supplies a mapping table whose
\* length slot is empty.
C20_PerOperationResolution ==
    /\ (LastResolve /\ protoLast.ok) =>
           \A op \in MappingOps :
               SuppliersOf(protoMro, op) # {} =>
                   protoLast.methods[op] = SomeSlot(First(SuppliersOf(protoMro, op)))
    /\ (protoLast.op = "size" /\ SuppliersOf(protoMro, "length") # {}) =>
           /\ protoLast.res.tag = "Return"
           /\ protoLast.res.val[1].by = First(SuppliersOf(protoMro, "length"))

\* ------------------------------------------------------------ view-operation claims
\* The number of entries of the mapping.
Entries(entries) == {i \in 1..Len(entries) : entries[i].live}

\* C21: views are read-through: after any sequence of insertions and
\* deletions on the backing mapping the length reported by a keys, values or
\* items view equals the mapping's current number of entries, and creating or
\* measuring a view never changes the mapping.
C21_ViewLenReadThrough ==
    /\ opLast.op = "len" =>
           opLast.res = Return(Cardinality(Entries(opLast.preEntries)))
    /\ opLast.op \in {"new", "len"} => opLast.postEntries = opLast.preEntries

\* A view was measured while the mapping held one entry and one emptied slot.
C21_Witness ==
    /\ opLast.op = "len"
    /\ Len(opLast.preEntries) = 2
    /\ opLast.res = Return(1)

\* The projected elements of a view: one per entry of the mapping.
Projected(kind, entries) ==
    {result_fn(kind, entries[i].key, entries[i].value) : i \in Entries(entries)}

\* The elements of an iterable.
Elements(other) == {other[i] : i \in 1..Len(other)}

\* C22: for a keys- or items-view v with projected element set S and an
\* iterable o with element set O, v ^ o and o ^ v are the symmetric difference
\* of S and O, v & o and o & v the intersection, v | o and o | v the union,
\* v - o is S minus O and the reflected o - v is O minus S; each returns a set
\* and leaves the backing mapping unchanged.
C22_ViewSetAlgebra ==
    opLast.op = "setop" =>
        LET S    == Projected(opLast.kind, opLast.preEntries)
            O    == Elements(opLast.arg.other)
            name == opLast.arg.name
        IN  /\ opLast.res.tag = "Return"
            /\ name \in {"__xor__", "__rxor__"} =>
                   opLast.res.val[1] = (S \cup O) \ (S \cap O)
            /\ name \in {"__and__", "__rand__"} => opLast.res.val[1] = S \cap O
            /\ name \in {"__or__", "__ror__"} => opLast.res.val[1] = S \cup O
            /\ name = "__sub__" => opLast.res.val[1] = S \ O
            /\ name = "__rsub__" => opLast.res.val[1] = O \ S
            /\ opLast.postEntries = opLast.preEntries

\* The key-views of {1: x, 2: y} and of a mapping with keys 2 and 3 have the
\* symmetric difference {1, 3}, and 2-and-3 minus the view is {3}.
C22_Witness ==
    /\ opLast.op = "setop"
    /\ opLast.kind = "keys"
    /\ LiveKeys(opLast.preEntries) = {1, 2}
    /\ opLast.arg.other = <<2, 3>>
    /\ \/ opLast.arg.name = "__rxor__" /\ opLast.res = Return({1, 3})
       \/ opLast.arg.name = "__rsub__" /\ opLast.res = Return({3})

\* C23: x in items_view is true exactly when x is a 2-element tuple (k, v), k
\* is a key of the backing mapping and the value stored under k is v; for a
\* non-tuple, a tuple of another length, an absent key and a present key with
\* another value it is false, not an error.
C23_ItemsContains ==
    opLast.op = "contains" =>
        LET x == opLast.arg
            stored == x.tuple /\ Len(x.items) = 2 /\
                      \E i \in Entries(opLast.preEntries) :
                          /\ opLast.preEntries[i].key = x.items[1]
                          /\ opLast.preEntries[i].value = x.items[2]
        IN  opLast.res = Return(stored)

\* (1, y) was probed in the items-view of a mapping that stores 1: x.
C23_Witness ==
    /\ opLast.op = "contains"
    /\ opLast.arg = Tuple(<<1, "y">>)
    /\ \E i \in Entries(opLast.preEntries) :
           opLast.preEntries[i] = Entry(1, "x")
    /\ opLast.res = Return(FALSE)

\* The comparison of two sets under a rich comparison operator.
SetCmp(op, S, O) ==
    CASE op = "Eq" -> S = O
      [] op = "Ne" -> S # O
      [] op = "Le" -> S \subseteq O
      [] op = "Lt" -> S \subseteq O /\ S # O
      [] op = "Ge" -> O \subseteq S
      [] OTHER     -> O \subseteq S /\ S # O

\* The projected elements of the object a view is compared with.
OtherProjected(other) ==
    IF other.type = "set" THEN other.items ELSE Projected(other.kind, other.entries)

\* C24: comparing a keys- or items-view (==, !=, <, <=, >, >=) with a set or
\* with another view of any kind yields the result of comparing the sets of
\* their projected elements; two views of the same kind are compared through
\* their backing mappings, by keys only for keys-views and by key and value
\* for items-views.
C24_ViewComparison ==
    opLast.op = "cmp" =>
        /\ opLast.res.tag = "Return"
        /\ opLast.res.val[1] =
               SetCmp(opLast.arg.op, Projected(opLast.kind, opLast.preEntries),
                      OtherProjected(opLast.arg.other))

\* ------------------------------------------------- view-iterator claims, continued
\* The position and status of every iterator are those its own creation or
\* its own last next left.
OwnPosition ==
    \A id \in ViewIds :
        viewIters[id].made =>
            /\ viewIters[id].position = viewHist[id].own.position
            /\ viewIters[id].status = viewHist[id].own.status

\* C25: replacing the value stored under an existing key between next calls
\* is never reported as a structural mutation: the iterator keeps its
\* position, its next does not raise, and it yields until it returns
\* StopIteration.
C25_ReplacementUndetected ==
    /\ OwnPosition
    /\ (viewLast.op = "next" /\ viewLast.preStatus = "Active"
            /\ ~viewLast.preMutated) =>
           viewLast.res.tag \in {"Return", "StopIteration"}

\* An iterator yielded, then a stored value was replaced, and the iterator
\* went on and yielded its second entry.
C25_Witness ==
    /\ viewLast.op = "next"
    /\ viewLast.preReplaced /\ ~viewLast.preMutated
    /\ ~viewIters[viewLast.id].reverse
    /\ viewLast.res.tag = "Return"
    /\ viewIters[viewLast.id].position = 2

\* C26: several iterators over one backing mapping are independent: each
\* holds the size signature of the mapping at its own creation, a next of one
\* iterator leaves the position and status of the others as they were, and
\* after an insertion or deletion the next of every still-Active iterator
\* created before it raises the RuntimeError, while the next of an iterator
\* created after it does not.
C26_IndependentIterators ==
    /\ OwnPosition
    /\ \A id \in ViewIds :
           (viewIters[id].made /\ ~viewHist[id].mutated) =>
               viewIters[id].size = DictSize(dictEntries)
    /\ viewLast.op = "next" =>
           /\ viewLast.othersKept
           /\ viewLast.preStatus = "Active" =>
                  (viewLast.res = ChangedSizeError <=> viewLast.preMutated)

\* Iterator 1 was created, the mapping gained or lost an entry, iterator 2
\* was created, and then iterator 2 yielded while iterator 1 is still Active
\* and due to raise.
C26_Witness ==
    /\ viewLast.op = "next"
    /\ viewLast.id = 2
    /\ viewLast.res.tag = "Return"
    /\ ~viewLast.preMutated
    /\ viewIters[1].made /\ viewIters[1].status = "Active"
    /\ viewHist[1].mutated
    /\ viewIters[1].size # viewIters[2].size

\* The projected entries of the mapping in insertion order, or in reverse
\* insertion order.
IsLive(entry) == entry.live

InOrder(kind, reverse, entries) ==
    LET s == SelectSeq(entries, IsLive)
        n == Len(s)
    IN  [i \in 1..n |->
            LET e == IF reverse THEN s[n + 1 - i] ELSE s[i]
            IN  result_fn(kind, e.key, e.value)]

Prefix(a, b) == Len(a) <= Len(b) /\ \A i \in 1..Len(a) : a[i] = b[i]

\* C27: over an unmodified mapping with n entries a forward view iterator
\* yields exactly the n projected entries in insertion order and a reverse
\* view iterator the n projected entries in reverse insertion order, each
\* entry once, and both then return StopIteration; for n = 0 the first next
\* returns StopIteration.
C27_YieldsEveryEntryOnce ==
    \A id \in ViewIds :
        (viewIters[id].made /\ ~viewHist[id].mutated /\ ~viewHist[id].replaced) =>
            LET all == InOrder(viewIters[id].kind, viewIters[id].reverse, dictEntries)
            IN  /\ Prefix(viewHist[id].out, all)
                /\ viewHist[id].stopped => viewHist[id].out = all
                /\ ~viewHist[id].errored

\* ------------------------------------------------------ sequence-comparison claims
\* The indices at which two sequences both have an element and the elements
\* differ.
Differing(a, b) == {i \in 1..Shorter(Len(a), Len(b)) : a[i] # b[i]}

Least(S) == CHOOSE i \in S : \A j \in S : i <= j

\* A rich comparison operator applied to two integers.
Compare(op, a, b) ==
    CASE op = "Lt" -> a < b
      [] op = "Le" -> a <= b
      [] op = "Gt" -> a > b
      [] op = "Ge" -> a >= b
      [] op = "Eq" -> a = b
      [] OTHER     -> a # b

\* C28: sequence comparison is lexicographic: Eq is true exactly when the
\* lengths are equal and every pair of corresponding elements is equal, Ne is
\* its negation, and Lt, Le, Gt and Ge are decided by the first index at which
\* the elements differ, no later element being compared, or, when there is no
\* such index, by the operator applied to the two lengths.
C28_LexicographicComparison ==
    seqLast.op # "none" =>
        LET a == seqLast.zelf
            b == seqLast.other
            D == Differing(a, b)
        IN  CASE seqLast.op = "Eq" -> seqLast.res = (Len(a) = Len(b) /\ D = {})
              [] seqLast.op = "Ne" -> seqLast.res = ~(Len(a) = Len(b) /\ D = {})
              [] OTHER ->
                    IF D # {}
                    THEN /\ seqLast.res = Compare(seqLast.op, a[Least(D)], b[Least(D)])
                         /\ seqLast.compared = Least(D)
                    ELSE seqLast.res = Compare(seqLast.op, Len(a), Len(b))

\* <<1, 2>> <= <<2, 1>> was decided at the first elements, and
\* <<1>> >= <<1, 1>> by the lengths.
C28_Witness ==
    \/ /\ seqLast.op = "Le"
       /\ seqLast.zelf = <<1, 2>> /\ seqLast.other = <<2, 1>>
       /\ seqLast.res /\ seqLast.compared = 1
    \/ /\ seqLast.op = "Ge"
       /\ seqLast.zelf = <<1>> /\ seqLast.other = <<1, 1>>
       /\ ~seqLast.res

\* ------------------------------------------------------------ zip claims, continued
\* C29: the strictness flag of a zip object is set at construction, false
\* when not given, and afterwards only setstate changes it: a next or a
\* reduce leaves it as it was, setstate leaves the sub-iterators as they were,
\* and reduce returns a third element, True, exactly when the flag is set.
C29_StrictFlag ==
    /\ zipLast.op = "none" => zipStrict = (zipArg = "True")
    /\ zipLast.op \in {"next", "reduce"} => zipStrict = zipLast.strict
    /\ zipLast.op \in {"setstate", "reduce"} => zipIters = zipLast.pre
    /\ zipLast.op = "reduce" =>
           /\ zipLast.res.tag = "Return"
           /\ zipLast.strict =>
                  Len(zipLast.res.val[1]) = 3 /\ zipLast.res.val[1][3] = TRUE
           /\ ~zipLast.strict => Len(zipLast.res.val[1]) = 2

\* A zip object constructed without strict, made strict by setstate, stepped
\* and then reduced: the flag is reported.
C29_Witness ==
    /\ zipLast.op = "reduce"
    /\ zipArg = "Missing"
    /\ zipLast.strict
    /\ zipModes = {TRUE}
    /\ Len(zipLast.res.val[1]) = 3

\* ------------------------------------------------------------ map and zip claim
\* The 0-based positions of the sub-iterators that, reached in a next over
\* `pre`, are exhausted or raise.
Failing(pre, raiser) ==
    {i \in 0..(Len(pre) - 1) : pre[i + 1].pos = pre[i + 1].len \/ raiser = i}

\* The sub-iterators before position i have each given one item, and those
\* after position i are as they were.
NoRollback(pre, post, i) ==
    /\ Len(post) = Len(pre)
    /\ \A j \in 0..(Len(pre) - 1) :
           /\ j < i => post[j + 1] = [pre[j + 1] EXCEPT !.pos = @ + 1]
           /\ j > i => post[j + 1] = pre[j + 1]

\* C30: no rollback in map and lenient zip: in a next call where the
\* sub-iterator at position i is the first to exhaust or raise, the
\* sub-iterators 0..i-1 have each been advanced by exactly one item and the
\* sub-iterators after i have not been advanced.
C30_NoRollback ==
    /\ (mapLast.op = "next" /\ Failing(mapLast.pre, mapLast.raiser) # {}) =>
           /\ mapLast.res.tag # "Return"
           /\ NoRollback(mapLast.pre, mapIters,
                         Least(Failing(mapLast.pre, mapLast.raiser)))
    /\ (zipLast.op = "next" /\ ~zipLast.strict
            /\ Failing(zipLast.pre, zipLast.raiser) # {}) =>
           /\ zipLast.res.tag # "Return"
           /\ NoRollback(zipLast.pre, zipIters,
                         Least(Failing(zipLast.pre, zipLast.raiser)))

\* A map next stopped at its second sub-iterator of three after taking an
\* item from the first, or a lenient zip next did.
C30_Witness ==
    \/ /\ mapLast.op = "next"
       /\ Len(mapIters) = 3
       /\ Failing(mapLast.pre, mapLast.raiser) # {}
       /\ Least(Failing(mapLast.pre, mapLast.raiser)) = 1
       /\ mapIters[1].pos = mapLast.pre[1].pos + 1
       /\ mapIters[3].pos = 0 /\ mapIters[3].len > 0
    \/ /\ zipLast.op = "next" /\ ~zipLast.strict
       /\ Len(zipIters) = 3
       /\ Failing(zipLast.pre, zipLast.raiser) # {}
       /\ Least(Failing(zipLast.pre, zipLast.raiser)) = 1
       /\ zipIters[1].pos = zipLast.pre[1].pos + 1
       /\ zipIters[3].pos = 0 /\ zipIters[3].len > 0

\* ------------------------------------------- reverse-iterator claims, continued
\* C31: if the subject of a reverse-sequence iterator shrinks during iteration
\* so that item access at the current position raises IndexError, next
\* returns StopIteration (no error reaches the caller), the status becomes
\* Exhausted, and every later next returns StopIteration even if the subject
\* grows again.
C31_IndexErrorExhausts ==
    /\ (/\ revLast.op = "next"
        /\ revLast.preStatus = "Active"
        /\ revLast.fault = "none"
        /\ revLast.prePos >= revLast.len /\ revLast.prePos >= 0) =>
           /\ revLast.res = StopIteration
           /\ revStatus = "Exhausted"
    /\ revIndexStop => revStatus = "Exhausted"
    /\ (revIndexStop /\ revLast.op = "next") => revLast.res = StopIteration

\* An iterator was exhausted by IndexError, the subject then grew so that the
\* position is in range again, and a further next was made.
C31_Witness ==
    /\ revIndexStop
    /\ revMutated
    /\ revLast.op = "next" /\ revLast.preStatus = "Exhausted"
    /\ revLast.prePos >= 0 /\ revLast.prePos < revLast.len
    /\ revLast.res = StopIteration

\* C38: in every reachable state of a reverse-sequence iterator over an
\* unchanging subject, length_hint is non-negative and equals the number of
\* items the iterator will still yield; in particular it is 0 after the
\* iterator has been exhausted, however many further next calls are made.
C38_LengthHint ==
    (revClean /\ revLast.op = "length_hint") =>
        /\ revLast.res.val[1] >= 0
        /\ revLast.res.val[1] = Len(Remaining(revObj, revPos, revStatus))
        /\ revStatus = "Exhausted" => revLast.res.val[1] = 0

\* C39: when item access in a reverse-sequence iterator's next raises an error
\* other than IndexError, that error is returned to the caller, the iterator
\* stays Active, and the position has already been decremented, so a following
\* next continues at the next lower index and the failed index is never
\* retried.
C39_ErrorPassesThrough ==
    (revLast.op = "next" /\ revLast.accessed /\ revLast.fault # "none") =>
        /\ revLast.res = get_item(revObj, revLast.prePos, revLast.fault)
        /\ revLast.res.tag \notin {"Return", "IndexError"}
        /\ revStatus = "Active"
        /\ revPos = revLast.prePos - 1
        /\ LET following == PyReverseSequenceIterator_next(revObj, revPos, revStatus, "none")
           IN  /\ following.accessed <=> revLast.prePos - 1 >= 0
               /\ (revLast.prePos - 1 >= 0 /\ revLast.prePos - 1 < Len(revObj)) =>
                      following.res = Return(revObj[revLast.prePos])
               /\ following.position = revLast.prePos - 2

\* __getitem__(1) raised an error in a next over a subject of three items: the
\* iterator is Active at position 0.
C39_Witness ==
    /\ revLast.op = "next" /\ revLast.accessed /\ revLast.fault = "Error"
    /\ revLast.prePos = 1
    /\ Len(revObj) = 3
    /\ revLast.res.tag = "Error"
    /\ revStatus = "Active" /\ revPos = 0

\* ------------------------------------------- concurrent-driver claims
\* The (position, status) pairs a forward iterator in state `it` goes through
\* when next is called on it again and again by one caller.
RECURSIVE SequentialStates(_, _)
SequentialStates(it, entries) ==
    {<<it.position, it.status>>} \cup
        IF it.status = "Active"
        THEN LET r == ODictIter_next(it, entries)
             IN  SequentialStates([it EXCEPT !.position = r.position,
                                             !.status = r.status], entries)
        ELSE {}

\* The slots of the live entries.
LiveSlots(entries) == {i \in 1..Len(entries) : entries[i].live}

C33_PairAtomic ==
    (encLast.op = "next" /\ encLast.res.tag = "Return") =>
        encLast.res.val[1][2] = Item(0, BigVal(encLast.res.val[1][1]) - EnumS)

\* ------------------------------------------------------------ map claims, continued
\* The transform has returned a value whenever invoked and no sub-iterator has
\* raised.
MapWellBehaved == mapBehs \subseteq {"value"} /\ ~mapRaised

\* C34: map stops when the shortest iterable is exhausted: for a map built
\* over N >= 0 finite source iterables and a transform that never signals
\* stop, repeated next calls eventually return StopIteration after finitely
\* many yielded items.  Every source holds at most MaxLen items, so the run
\* yields at most MaxLen items and every next call after that, and every next
\* call that yields nothing, returns StopIteration.
C34_MapTerminates ==
    MapWellBehaved =>
        /\ Len(mapOut) <= MaxLen
        /\ (mapLast.op = "next" /\ mapLast.res.tag # "Return") =>
               mapLast.res = StopIteration

\* The items left in each sub-iterator, by argument position.
Left(its) == {its[i].len - its[i].pos : i \in 1..Len(its)}

Max(S) == CHOOSE x \in S : \A y \in S : y <= x

\* The hints the sub-iterators gave to the last length_hint call.
Hints ==
    {IF (i - 1) \in mapLast.hintless THEN 0 ELSE mapIters[i].len - mapIters[i].pos :
        i \in 1..Len(mapIters)}

\* C35 as stated: map's length_hint returns the maximum of its sub-iterators'
\* length hints (0 for a sub-iterator without a hint, 0 for no sub-iterators),
\* so for sub-iterators of unequal remaining length it exceeds the number of
\* items the map will still yield, which is the minimum.
C35_LengthHintMax_Stated ==
    mapLast.op = "length_hint" =>
        /\ mapLast.res = Return(Max(Hints \cup {0}))
        /\ Cardinality(Left(mapIters)) > 1 =>
               mapLast.res.val[1] > Min(Left(mapIters))

\* C35: map's length_hint returns the maximum of its sub-iterators' length
\* hints (0 for a sub-iterator without a hint, 0 for no sub-iterators), so for
\* sub-iterators that all report their remaining length as their hint and
\* whose remaining lengths are unequal it exceeds the number of items the map
\* will still yield, which is the minimum.
C35_LengthHintMax ==
    mapLast.op = "length_hint" =>
        /\ mapLast.res = Return(Max(Hints \cup {0}))
        /\ (Cardinality(Left(mapIters)) > 1 /\ mapLast.hintless = {}) =>
               mapLast.res.val[1] > Min(Left(mapIters))

\* length_hint was called on a map over three sub-iterators that all report a
\* hint, with 2, 1 and 0 items left: the hint is 2 and the map yields nothing
\* more.
C35_Witness ==
    /\ mapLast.op = "length_hint"
    /\ mapLast.hintless = {}
    /\ Len(mapIters) = 3
    /\ Left(mapIters) = {0, 1, 2}
    /\ mapLast.res = Return(2)

\* ------------------------------------------------ sequence-protocol claim
\* The places in the MRO of the types that supply the as_sequence slot.
SeqSuppliers(mro) == {i \in 1..Len(mro) : mro[i].as_sequence.some}

\* C36: sequence-protocol resolution (PySequenceMethodsRef) returns the
\* sequence table of the first type in the MRO that supplies a sequence slot
\* and fails with a TypeError only when no type in the MRO supplies one; this
\* holds also for objects whose type additionally supplies a mapping
\* subscript slot.
C36_SequenceResolution ==
    protoLast.op = "sequence" =>
        IF SeqSuppliers(protoMro) # {}
        THEN protoLast.res = Return(SequenceMethods(First(SeqSuppliers(protoMro))))
        ELSE protoLast.res.tag = "TypeError"

\* ----------------------------------------------------- descriptor claims, continued
\* What the bound-method made by binding the descriptor to the first argument
\* of the last unbound call does when called with the remaining arguments.
BoundEquivalent ==
    PyMethodWrapper_call(descr_get(descrLast.preDescr, descrLast.args[1]).res.val[1],
                         Tail(descrLast.args), "value")

\* C37: calling an unbound descriptor d with positional arguments
\* (r, a1, ..., an), where r's type is a subclass of d's owner type, invokes
\* the dispatch function with the same receiver and the same argument list as
\* calling the bound-method bind(d, r) with (a1, ..., an): the receiver is not
\* passed a second time inside the argument list.
C37_UnboundAsBound ==
    (/\ descrLast.op = "call"
     /\ Len(descrLast.args) >= 1
     /\ fast_issubclass(class(descrLast.args[1]), descr.class)) =>
        /\ descrLast.ran = BoundEquivalent.ran
        /\ descrLast.ranZelf = BoundEquivalent.zelf
        /\ descrLast.ranArgs = BoundEquivalent.args

\* ------------------------------------------------------------ SeqMul claim
\* seq repeated n times.
RECURSIVE Repeated(_, _)
Repeated(seq, n) == IF n <= 0 THEN <<>> ELSE seq \o Repeated(seq, n - 1)

\* C40: seq_mul(seq, n) yields exactly len(seq) * max(n, 0) elements, namely
\* the elements of seq in order repeated max(n, 0) times; for an empty seq or
\* n <= 0 it yields nothing and terminates; at every point of the iteration
\* size_hint reports exactly the number of elements still to be yielded.
C40_SeqMul ==
    LET all == Repeated(mulSeq, mulArg)
    IN  /\ Len(all) = Len(mulSeq) * (IF mulArg > 0 THEN mulArg ELSE 0)
        /\ Len(mulOut) <= Len(all)
        /\ mulOut = SubSeq(all, 1, Len(mulOut))
        /\ (mulLast.op = "next" /\ mulLast.res = ReturnNone) => mulOut = all
        /\ (mulLast.op = "next" /\ mulLast.res.tag = "Return") =>
               mulLast.res.val[1] = all[Len(mulOut)]
        /\ (mulLast.op = "next" /\ (Len(mulSeq) = 0 \/ mulArg <= 0)) =>
               mulLast.res = ReturnNone /\ mulOut = <<>>
        /\ mulLast.op = "size_hint" =>
               /\ mulLast.res.val[1].lower = Len(all) - Len(mulOut)
               /\ mulLast.res.val[1].upper = Return(Len(all) - Len(mulOut))

\* In the second of three repetitions of [1, 2], after three elements,
\* size_hint was asked.
C40_Witness ==
    /\ mulSeq = <<1, 2>> /\ mulArg = 3
    /\ mulOut = <<1, 2, 1>>
    /\ mulLast.op = "size_hint"
    /\ mulLast.res.val[1].lower = 3

=============================================================================
